---- MODULE Spec2Model ----
(***************************************************************************)
(* A model of the JARVIS portable assistant: the battery manager           *)
(* (core/battery_manager.py), the reasoning core (core/brain.py), the      *)
(* persistent store (core/persistent_memory.py), the task tracker          *)
(* (core/task_tracker.py) and the central router (jarvis_router.py).       *)
(* Each component has its own specification over the shared variables.    *)
(***************************************************************************)
EXTENDS Integers, Sequences, FiniteSets, TLC

VARIABLES
    \* ---- battery manager (core/battery_manager.py)
    sensor,            \* psutil.sensors_battery(): [battery, percent, plugged]
    now,               \* datetime.now(), in seconds since construction
    current_profile,   \* BatteryManager.current_profile
    last_check,        \* BatteryManager.last_check
    battery_history,   \* BatteryManager.battery_history
    lastProfile,       \* the last get_performance_profile() call: reading and result
    lastCall,          \* the last check_and_adapt() call: when, what it saw, what it returned
    trueCalls,         \* the times of the check_and_adapt() calls that returned True
    \* ---- reasoning core (core/brain.py)
    claude_sdk_available,  \* JARVISBrainV3SDK.claude_sdk_available (backend A)
    ollama_available,      \* JARVISBrainV3SDK.ollama_available (backend B)
    think,                 \* the think() call in progress, or the last one
    \* ---- persistent store (core/persistent_memory.py)
    consultations,     \* the rows of table consultations, in rowid order
    tasks,             \* the rows of table tasks, in rowid order
    today,             \* datetime.now(), in days since 2025-01-01
    written,           \* the arguments of every remember_consultation() call
    lastRecall,        \* the recall_*() or search() call that has just returned
    \* ---- router (jarvis_router.py)
    initialized,       \* JARVISRouter.initialized
    constructions,     \* how many times the brain, the store and the tracker were built
    agents,            \* JARVISRouter.agents: cache key -> agent object
    instances,         \* the expert agent objects the router holds, by identity
    working_memory,    \* brain.working_memory: the entries the agents wrote
    inflight,          \* the consult_async() coroutines suspended at `await agent.consult`
    lastOp,            \* the router call that has just ended and how it ended
    \* ---- code reviewer (agents/reviewer_agent.py)
    reviews_completed, \* CodeReviewerAgent.reviews_completed
    review_memory,     \* what execute_task() asked the brain to remember
    lastReview,        \* the last execute_task() call: the code and the result
    \* ---- database file of the store (core/persistent_memory.py, _init_schema)
    schema,            \* the tables and indexes of the database file, as created
    lastOpen,          \* the last PersistentMemory() construction on the file
    \* ---- class JARVISRouter (jarvis_router.py, get_instance)
    instance,          \* JARVISRouter._instance
    routers,           \* how many JARVISRouter objects were constructed
    \* ---- main process (start_jarvis.py)
    portable_agents,   \* JARVISPortable.agents: the keys held, in insertion order
    portable_objects,  \* the agent objects constructed, by key: class, running, stop() calls
    monitoring_interval, \* monitor.monitoring_interval
    portable_running,  \* JARVISPortable.running
    portable_brain,    \* JARVISPortable.brain: "none", "open" or "closed"
    heartbeat_count,   \* JARVISPortable.heartbeat_count
    faulty,            \* the keys of the agents whose stop() raises
    stage,             \* where main() stands
    lastStep,          \* the step of main() that has just ended
    \* ---- hook installer (install_hooks.py)
    claude_hooks_dir,  \* the files of the hooks directory of the coding tool: name -> content
    lastHookOp,        \* the installer run that has just ended, with the directory before it
    hookOrigin,        \* the hooks directory before the first installer run
    hookRuns,          \* the installer runs so far, in order
    \* ---- system audit (audit_system.py)
    audit,             \* audit_complet(): where it stands, its results, what it did
    report,            \* audit_report.md: absent, or the sections written
    \* ---- monitor agent (agents/monitor_agent.py)
    mon,               \* the NetworkMonitorAgent: brain, running, metrics_collected
    loops              \* the _monitoring_loop() tasks created by start(), in creation order

batteryVars == <<sensor, now, current_profile, last_check, battery_history,
                 lastProfile, lastCall, trueCalls>>

brainVars == <<claude_sdk_available, ollama_available, think>>

storeVars == <<consultations, tasks, today, written, lastRecall>>

routerVars == <<initialized, constructions, agents, instances, working_memory, inflight, lastOp>>

reviewerVars == <<reviews_completed, review_memory, lastReview>>

schemaVars == <<schema, lastOpen>>
classVars == <<instance, routers>>
auditVars == <<audit, report>>
monitorVars == <<mon, loops>>
hooksVars == <<claude_hooks_dir, lastHookOp, hookOrigin, hookRuns>>
portableVars == <<portable_agents, portable_objects, monitoring_interval, portable_running,
                  portable_brain, heartbeat_count, faulty, stage, lastStep>>

vars == <<batteryVars, brainVars, storeVars, routerVars, reviewerVars, schemaVars, classVars, portableVars, hooksVars, auditVars, monitorVars>>

\* What the actions of one component leave alone in the others.
BatteryFrame == UNCHANGED <<brainVars, storeVars, routerVars, reviewerVars, schemaVars, classVars, portableVars, hooksVars, auditVars, monitorVars>>
BrainFrame == UNCHANGED <<batteryVars, storeVars, routerVars, reviewerVars, schemaVars, classVars, portableVars, hooksVars, auditVars, monitorVars>>
StoreFrame == UNCHANGED <<batteryVars, brainVars, routerVars, reviewerVars, schemaVars, classVars, portableVars, hooksVars, auditVars, monitorVars>>
RouterFrame == UNCHANGED <<batteryVars, brainVars, reviewerVars, schemaVars, classVars, portableVars, hooksVars, auditVars, monitorVars>>
ReviewerFrame == UNCHANGED <<batteryVars, brainVars, storeVars, routerVars, schemaVars, classVars, portableVars, hooksVars, auditVars, monitorVars>>
SchemaFrame == UNCHANGED <<batteryVars, brainVars, routerVars, reviewerVars, classVars, portableVars, hooksVars, auditVars, monitorVars>>

\* ------------------------------------------------------------------------
\* Strings (Python str): characters are the one-character substrings
\* ------------------------------------------------------------------------
UpperChars == "ABCDEFGHIJKLMNOPQRSTUVWXYZ"
LowerChars == "abcdefghijklmnopqrstuvwxyz"
Whitespace == {" ", "\t", "\n", "\r"}

CharAt(s, i) == SubSeq(s, i, i)

\* str.lower() of one character.
LowerOf ==
    [c \in {CharAt(UpperChars, i) : i \in 1..Len(UpperChars)} |->
        CharAt(LowerChars, CHOOSE i \in 1..Len(UpperChars) : CharAt(UpperChars, i) = c)]

LowerChar(c) == IF c \in DOMAIN LowerOf THEN LowerOf[c] ELSE c

\* str.lower()
RECURSIVE lower(_)
lower(s) ==
    IF Len(s) = 0 THEN s
    ELSE IF Len(s) = 1 THEN LowerChar(s)
    ELSE lower(SubSeq(s, 1, Len(s) \div 2)) \o lower(SubSeq(s, Len(s) \div 2 + 1, Len(s)))

\* str.strip(): leading and trailing whitespace removed.
RECURSIVE strip(_)
strip(s) ==
    IF Len(s) = 0 THEN s
    ELSE IF CharAt(s, 1) \in Whitespace THEN strip(SubSeq(s, 2, Len(s)))
    ELSE IF CharAt(s, Len(s)) \in Whitespace THEN strip(SubSeq(s, 1, Len(s) - 1))
    ELSE s

\* Python's `w in s` for strings.
Contains(s, w) ==
    \E i \in 1..(Len(s) - Len(w) + 1) : SubSeq(s, i, i + Len(w) - 1) = w

\* s[:n]
Prefix(s, n) == IF Len(s) <= n THEN s ELSE SubSeq(s, 1, n)

\* A string of n filler characters.
RECURSIVE Filler(_)
Filler(n) ==
    IF n = 0 THEN ""
    ELSE IF n = 1 THEN "."
    ELSE Filler(n \div 2) \o Filler(n - n \div 2)

\* ------------------------------------------------------------------------
\* Bounds of the model
\* ------------------------------------------------------------------------
MaxPercent == 100      \* psutil reports the charge as a percentage
TickStep == 15         \* seconds of wall time that pass in one clock step
MaxTime == 150         \* the clock stops advancing here
MaxTrueCalls == 4      \* recorded True calls (only a broken throttle reaches it)
MaxConsultations == 2  \* rows of table consultations in the round-trip specification
MaxRows == 2           \* rows of both tables together in the time-window specification
DayStep == 20          \* days that pass in one step of the store's clock
MaxReviews == 3        \* code reviews of one reviewer
MaxConsults == 1       \* consultations the router completes
MaxInflight == 2                \* consult_async() coroutines suspended at once
MaxInterleaved == 3             \* consultations of one interleaved run
MaxHeartbeats == 2              \* iterations of run_forever()
MaxHookRuns == 3                \* installer runs on one hooks directory
ContextDayStep == 30   \* days that pass in one step between consultations
ContextMaxDays == 120  \* days between the first and the last consultation
ContextMaxRows == 3    \* rows the store holds when contexts are retrieved
MaxLoops == 2          \* start() calls on one monitor agent
MaxSamples == 3        \* samples one monitor agent collects
MaxDays == 60          \* the store's clock stops this many days after the start

Profiles == {"PERFORMANCE", "BALANCED", "ECO", "CRITICAL"}

\* One charge level per profile band, for the specifications that carry the
\* sensor along with the clock.
BatteryLevels == {10, 30, 60, 90}

\* What psutil.sensors_battery() can return: None (battery FALSE, the other
\* fields unused) or a reading with its charge and its power_plugged flag.
NoBattery == [battery |-> FALSE, percent |-> 0, plugged |-> FALSE]

SensorReadings(levels) ==
    {NoBattery} \cup [battery : {TRUE}, percent : levels, plugged : BOOLEAN]

\* ------------------------------------------------------------------------
\* BatteryManager
\* ------------------------------------------------------------------------

\* get_battery_status(): the status dictionary for a sensor reading.
get_battery_status(battery) ==
    IF ~battery.battery
    THEN [present |-> FALSE, percent |-> 100, plugged |-> TRUE]
    ELSE [present |-> TRUE, percent |-> battery.percent, plugged |-> battery.plugged]

\* The same with the 80% threshold taken inclusively.
get_performance_profile_ge80(status) ==
    IF status.plugged THEN "PERFORMANCE"
    ELSE IF ~status.present THEN "PERFORMANCE"
    ELSE IF status.percent >= 80 THEN "PERFORMANCE"
    ELSE IF status.percent > 40 THEN "BALANCED"
    ELSE IF status.percent > 20 THEN "ECO"
    ELSE "CRITICAL"

\* get_performance_profile(), as a function of the status it reads.
get_performance_profile(status) ==
    IF status.plugged THEN "PERFORMANCE"
    ELSE IF ~status.present THEN "PERFORMANCE"
    ELSE IF status.percent > 80 THEN "PERFORMANCE"
    ELSE IF status.percent > 40 THEN "BALANCED"
    ELSE IF status.percent > 20 THEN "ECO"
    ELSE "CRITICAL"

check_interval == 60

\* BatteryManager.__init__
BatteryInit ==
    /\ now = 0
    /\ current_profile = "PERFORMANCE"
    /\ last_check = 0
    /\ battery_history = <<>>
    /\ lastProfile = <<>>
    /\ lastCall = <<>>
    /\ trueCalls = <<>>

\* The host's power state changes.
SensorChange(levels) ==
    /\ sensor' \in SensorReadings(levels) \ {sensor}
    /\ UNCHANGED <<now, current_profile, last_check, battery_history,
                   lastProfile, lastCall, trueCalls>>
    /\ BatteryFrame

\* Wall time passes.
Tick ==
    /\ now + TickStep <= MaxTime
    /\ now' = now + TickStep
    /\ UNCHANGED <<sensor, current_profile, last_check, battery_history,
                   lastProfile, lastCall, trueCalls>>
    /\ BatteryFrame

\* A call of get_performance_profile().
GetPerformanceProfile ==
    /\ lastProfile' = <<[status  |-> get_battery_status(sensor),
                         profile |-> get_performance_profile(get_battery_status(sensor))]>>
    /\ UNCHANGED <<sensor, now, current_profile, last_check, battery_history,
                   lastCall, trueCalls>>
    /\ BatteryFrame

\* The throttle test left out.
NeverThrottled(t) == FALSE

\* The throttle test with the boundary on the other side.
Throttled_inclusive(t) == t - last_check <= check_interval

\* The throttle test of check_and_adapt().
Throttled(t) == t - last_check < check_interval

\* The trimming that keeps the oldest entries.
TrimHistory_oldest(h) ==
    IF Len(h) > 100
    THEN SubSeq(h, 1, 100)
    ELSE h

\* The history limit of check_and_adapt().
HistoryLimit == 100

TrimHistory(h) ==
    IF Len(h) > HistoryLimit
    THEN SubSeq(h, Len(h) - HistoryLimit + 1, Len(h))
    ELSE h

\* check_and_adapt(); ret is what it returns.
check_and_adapt ==
    LET new_profile == get_performance_profile(get_battery_status(sensor))
        status == get_battery_status(sensor)
        call(ret, throttled) ==
            <<[at |-> now, since |-> last_check, throttled |-> throttled,
               sensed |-> new_profile, before |-> current_profile,
               after |-> current_profile', ret |-> ret,
               last_check_after |-> last_check',
               history_before |-> battery_history]>>
    IN
    /\ Len(trueCalls) < MaxTrueCalls
    /\ IF Throttled(now)
       THEN /\ UNCHANGED <<current_profile, last_check, battery_history, trueCalls>>
            /\ lastCall' = call(FALSE, TRUE)
       ELSE /\ last_check' = now
            /\ IF new_profile # current_profile
               THEN /\ current_profile' = new_profile
                    /\ battery_history' =
                          TrimHistory(Append(battery_history,
                              [timestamp |-> now, level |-> status.percent,
                               profile |-> new_profile, plugged |-> status.plugged]))
                    /\ trueCalls' = Append(trueCalls, now)
                    /\ lastCall' = call(TRUE, FALSE)
               ELSE /\ UNCHANGED <<current_profile, battery_history, trueCalls>>
                    /\ lastCall' = call(FALSE, FALSE)
    /\ UNCHANGED <<sensor, now, lastProfile>>

\* A direct call of check_and_adapt().
CheckAndAdapt ==
    /\ check_and_adapt
    /\ BatteryFrame

\* ------------------------------------------------------------------------
\* JARVISBrainV3SDK (core/brain.py)
\* ------------------------------------------------------------------------
Min(a, b) == IF a < b THEN a ELSE b
Max(a, b) == IF a > b THEN a ELSE b

\* The complex keywords with the American spelling of the fifth.
complex_kw_analyze == <<"pourquoi", "why", "comment", "how", "analyze", "architecture",
                        "implement", "explain">>

\* The keyword lists of _evaluate_complexity().
complex_kw == <<"pourquoi", "why", "comment", "how", "analyse", "architecture",
                "implement", "explain">>
simple_kw == <<"bonjour", "hello", "what is", "qui est">>

\* _evaluate_complexity(prompt)
evaluate_complexity(prompt) ==
    LET prompt_lower == lower(prompt)
        longer200 == IF Len(prompt) > 200 THEN 1 ELSE 0
        longer500 == IF Len(prompt) > 500 THEN 1 ELSE 0
        hits == Cardinality({i \in DOMAIN complex_kw :
                                Contains(prompt_lower, complex_kw[i])})
        simple == IF \E i \in DOMAIN simple_kw : Contains(prompt_lower, simple_kw[i])
                  THEN 2 ELSE 0
        score == 5 + longer200 + longer500 + Min(hits, 3) - simple
    IN  Max(0, Min(10, score))

\* The routing of think() with the threshold taken strictly.
Route_gt7(complexity) ==
    IF complexity > 7 /\ claude_sdk_available THEN "claude"
    ELSE IF ollama_available THEN "ollama"
    ELSE "local"

\* The routing of think(): the tier the prompt is sent to first.
Route(complexity) ==
    IF complexity >= 7 /\ claude_sdk_available THEN "claude"
    ELSE IF ollama_available THEN "ollama"
    ELSE "local"

\* _think_local(prompt, context)
think_local(prompt) ==
    "**Question:** " \o prompt \o
    "\n\n**Status:** Limited mode (no API available)\n**Suggestion:** Configure Claude Code SDK or Ollama API"

\* A backend-A failure left to propagate.
claude_fallback_raise == "raise"

\* The except branch of _think_with_claude_sdk: the tier that follows.
claude_fallback == IF ollama_available THEN "ollama" ELSE "local"

\* The except branch of _think_with_ollama: the tier that follows.
ollama_fallback == "local"

\* What the backends can answer.
ClaudeTexts == {"claude answer"}
OllamaTexts == {"ollama answer", ""}

ThinkIdle ==
    [pc |-> "idle", prompt |-> "", complexity |-> 0, visited |-> <<>>,
     failed |-> <<>>, response |-> ""]

\* JARVISBrainV3SDK.__init__: the availability of each backend is fixed here.
BrainInit ==
    /\ claude_sdk_available \in BOOLEAN
    /\ ollama_available \in BOOLEAN
    /\ think = ThinkIdle

\* The state think() is in after entering tier t.
EnterTier(th, t) ==
    IF t = "local"
    THEN [th EXCEPT !.pc = "done", !.visited = Append(@, "local"),
                    !.response = think_local(th.prompt)]
    ELSE IF t = "raise"
    THEN [th EXCEPT !.pc = "raised"]
    ELSE [th EXCEPT !.pc = t, !.visited = Append(@, t)]

\* think(prompt): the complexity is evaluated and the prompt routed.
Think(prompt) ==
    /\ think.pc = "idle"
    /\ LET complexity == evaluate_complexity(prompt)
       IN  think' = EnterTier([ThinkIdle EXCEPT !.prompt = prompt,
                                                !.complexity = complexity],
                              Route(complexity))
    /\ UNCHANGED <<claude_sdk_available, ollama_available>>
    /\ BrainFrame

\* Backend A streams its messages.
ClaudeAnswers(text) ==
    /\ think.pc = "claude"
    /\ think' = [think EXCEPT !.pc = "done", !.response = text]
    /\ UNCHANGED <<claude_sdk_available, ollama_available>>
    /\ BrainFrame

\* Backend A streams no message with content.
ClaudeAnswersNothing ==
    /\ think.pc = "claude"
    /\ think' = [think EXCEPT !.pc = "done", !.response = "No response from Claude SDK"]
    /\ UNCHANGED <<claude_sdk_available, ollama_available>>
    /\ BrainFrame

\* Backend A raises.
ClaudeFails ==
    /\ think.pc = "claude"
    /\ think' = EnterTier([think EXCEPT !.failed = Append(@, "claude")], claude_fallback)
    /\ UNCHANGED <<claude_sdk_available, ollama_available>>
    /\ BrainFrame

\* Backend B answers.
OllamaAnswers(text) ==
    /\ think.pc = "ollama"
    /\ think' = [think EXCEPT !.pc = "done", !.response = text]
    /\ UNCHANGED <<claude_sdk_available, ollama_available>>
    /\ BrainFrame

\* Backend B raises, times out or answers malformed JSON.
OllamaFails ==
    /\ think.pc = "ollama"
    /\ think' = EnterTier([think EXCEPT !.failed = Append(@, "ollama")], ollama_fallback)
    /\ UNCHANGED <<claude_sdk_available, ollama_available>>
    /\ BrainFrame

\* think() has returned; the core is ready for the next prompt.
ThinkReturn ==
    /\ think.pc = "done"
    /\ think' = ThinkIdle
    /\ UNCHANGED <<claude_sdk_available, ollama_available>>
    /\ BrainFrame

\* The prompts given to think().
Prompts ==
    {"hello",
     "What is 2 + 2?",
     "Explain quantum computing",
     "Why and how?",
     "How to implement this architecture and explain why",
     "status" \o Filler(200),
     "Explain" \o Filler(200),
     "Bonjour, comment analyser ce module ?",
     "Analyze the logs",
     Filler(200),
     Filler(500),
     Filler(501),
     "WHY? " \o Filler(300),
     "Hello, explain why" \o Filler(501),
     "Explain how to implement the architecture" \o Filler(501)}

\* ------------------------------------------------------------------------
\* Python values
\* ------------------------------------------------------------------------
None == [none |-> TRUE]
Some(x) == [none |-> FALSE, v |-> x]

\* bool(x) is False for an optional string: None or "".
Falsy(x) == x.none \/ Len(x.v) = 0

\* ------------------------------------------------------------------------
\* datetime.isoformat() and the comparison of TEXT columns
\* ------------------------------------------------------------------------
MonthLengths == <<31, 28, 31, 30, 31, 30, 31, 31, 30, 31, 30, 31>>

\* The month and the day of the month of day d of 2025 (d = 0 is January 1st).
RECURSIVE MonthDay(_, _)
MonthDay(d, m) ==
    IF d < MonthLengths[m] THEN <<m, d + 1>> ELSE MonthDay(d - MonthLengths[m], m + 1)

Digit(n) == CharAt("0123456789", n + 1)

\* A two-digit field of an ISO timestamp.
TwoDigits(n) == Digit(n \div 10) \o Digit(n % 10)

\* datetime.isoformat() of the given day (the time of day is the same all along).
IsoFormat(day) ==
    LET md == MonthDay(day, 1)
    IN  "2025-" \o TwoDigits(md[1]) \o "-" \o TwoDigits(md[2]) \o "T09:30:00.250000"

\* The characters of a timestamp in ASCII order.
AsciiOrder == "-.0123456789:T"
CharCode(c) == CHOOSE i \in 1..Len(AsciiOrder) : CharAt(AsciiOrder, i) = c

\* The first position from i on where a and b differ, or where one of them ends.
RECURSIVE FirstDifference(_, _, _)
FirstDifference(a, b, i) ==
    IF i > Len(a) \/ i > Len(b) \/ CharAt(a, i) # CharAt(b, i) THEN i
    ELSE FirstDifference(a, b, i + 1)

\* a < b for TEXT values (SQLite's BINARY collation: bytewise, a prefix first).
TextLess(a, b) ==
    /\ a # b
    /\ LET i == FirstDifference(a, b, 1)
       IN  \/ i > Len(a)
           \/ /\ i <= Len(b)
              /\ CharCode(CharAt(a, i)) < CharCode(CharAt(b, i))

\* ------------------------------------------------------------------------
\* json.dumps / json.loads of a metadata dictionary
\* A dict is the sequence of its <<key, value>> items, in insertion order;
\* keys and values are strings without quotes or backslashes.
\* ------------------------------------------------------------------------
Quote == "\""

RECURSIVE JsonItems(_)
JsonItems(d) ==
    IF Len(d) = 0 THEN ""
    ELSE Quote \o d[1][1] \o Quote \o ": " \o Quote \o d[1][2] \o Quote
         \o (IF Len(d) > 1 THEN ", " ELSE "") \o JsonItems(Tail(d))

\* json.dumps(x) for x None or a dict.
JsonDumps(x) == IF x.none THEN "null" ELSE "{" \o JsonItems(x.v) \o "}"

\* The positions of the quote characters of text from position i on.
RECURSIVE QuotesFrom(_, _)
QuotesFrom(text, i) ==
    IF i > Len(text) THEN <<>>
    ELSE IF CharAt(text, i) = Quote THEN <<i>> \o QuotesFrom(text, i + 1)
    ELSE QuotesFrom(text, i + 1)

\* json.loads(text) for what JsonDumps writes.
JsonLoads(text) ==
    IF text = "null" THEN None
    ELSE LET q == QuotesFrom(text, 1)
             token(k) == SubSeq(text, q[2 * k - 1] + 1, q[2 * k] - 1)
         IN  Some([j \in 1..(Len(q) \div 4) |-> <<token(2 * j - 1), token(2 * j)>>])

\* ------------------------------------------------------------------------
\* PersistentMemory (core/persistent_memory.py)
\* ------------------------------------------------------------------------
StartDay == 90

\* `metadata or {}` with the default left out.
metadata_or_empty_asis(metadata) == metadata

\* `metadata or {}`
metadata_or_empty(metadata) ==
    IF metadata.none \/ Len(metadata.v) = 0 THEN Some(<<>>) ELSE metadata

\* PersistentMemory.__init__ on a path that holds no store yet.
StoreInit ==
    /\ consultations = <<>>
    /\ tasks = <<>>
    /\ today = StartDay
    /\ written = <<>>
    /\ lastRecall = <<>>

\* Wall time passes.
StoreTick ==
    /\ today + DayStep <= StartDay + MaxDays
    /\ today' = today + DayStep
    /\ lastRecall' = <<>>
    /\ UNCHANGED <<consultations, tasks, written>>
    /\ StoreFrame

\* The row remember_consultation() inserts.
ConsultationRow(agent_name, query, response, importance, metadata) ==
    [id |-> Len(consultations) + 1, agent_name |-> agent_name, query |-> query,
     response |-> response, importance |-> importance,
     metadata |-> JsonDumps(metadata_or_empty(metadata)),
     timestamp |-> IsoFormat(today), day |-> today]

\* remember_consultation(agent_name, query, response, importance, metadata)
remember_consultation(agent_name, query, response, importance, metadata) ==
    /\ consultations' = Append(consultations,
          ConsultationRow(agent_name, query, response, importance, metadata))
    /\ written' = Append(written,
          [id |-> Len(consultations) + 1, agent_name |-> agent_name, query |-> query,
           response |-> response, importance |-> importance, metadata |-> metadata])
    /\ lastRecall' = <<>>
    /\ UNCHANGED <<tasks, today>>

\* A direct call of remember_consultation().
RememberConsultation(agent_name, query, response, importance, metadata) ==
    /\ remember_consultation(agent_name, query, response, importance, metadata)
    /\ StoreFrame

\* The row remember_task() inserts.
TaskRow(agent_name, task_type, description, result, status, metadata) ==
    [id |-> Len(tasks) + 1, agent_name |-> agent_name, task_type |-> task_type,
     description |-> description, result |-> result, status |-> status,
     metadata |-> JsonDumps(metadata_or_empty(metadata)),
     timestamp |-> IsoFormat(today), day |-> today]

\* remember_task(agent_name, task_type, description, result, status, metadata)
remember_task(agent_name, task_type, description, result, status, metadata) ==
    /\ tasks' = Append(tasks,
          TaskRow(agent_name, task_type, description, result, status, metadata))
    /\ lastRecall' = <<>>
    /\ UNCHANGED <<consultations, today, written>>

\* A direct call of remember_task().
RememberTask(agent_name, task_type, description, result, status, metadata) ==
    /\ remember_task(agent_name, task_type, description, result, status, metadata)
    /\ StoreFrame

\* timestamp >= ? in place of timestamp > ?
InWindow_inclusive(timestamp, cutoff) == ~TextLess(timestamp, cutoff)

\* The WHERE clause `timestamp > ?`.
InWindow(timestamp, cutoff) == TextLess(cutoff, timestamp)

\* (datetime.now() - timedelta(days=days)).isoformat()
Cutoff(days) == IsoFormat(today - days)

\* The rows (by position) a recall selects from a table.
Selected(rows, agent_name, task_type, days) ==
    LET cutoff == IF days.none THEN "" ELSE Cutoff(days.v)
    IN  {i \in DOMAIN rows :
            /\ Falsy(agent_name) \/ rows[i].agent_name = agent_name.v
            /\ Falsy(task_type) \/ rows[i].task_type = task_type.v
            /\ days.none \/ InWindow(rows[i].timestamp, cutoff)}

\* ORDER BY timestamp DESC LIMIT ?: every order of the selected rows that is
\* descending by timestamp (rows of equal timestamp come in any order), cut
\* to the limit.
Ordered(rows, sel, limit) ==
    LET n == Cardinality(sel)
        older == [i \in sel, j \in sel |-> TextLess(rows[i].timestamp, rows[j].timestamp)]
        orders == {p \in [1..n -> sel] :
                     /\ \A i, j \in 1..n : i # j => p[i] # p[j]
                     /\ \A i, j \in 1..n : i < j => ~older[p[i], p[j]]}
    IN  {[k \in 1..Min(n, limit) |-> p[k]] : p \in orders}

\* The dictionary recall_consultations() builds from a row.
ConsultationDict(row) ==
    [id |-> row.id, agent |-> row.agent_name, query |-> row.query,
     response |-> row.response, importance |-> row.importance,
     metadata |-> IF Len(row.metadata) > 0 THEN JsonLoads(row.metadata) ELSE Some(<<>>),
     timestamp |-> row.timestamp]

\* The dictionary recall_tasks() builds from a row.
TaskDict(row) ==
    [id |-> row.id, agent |-> row.agent_name, task_type |-> row.task_type,
     description |-> row.description, result |-> row.result, status |-> row.status,
     metadata |-> IF Len(row.metadata) > 0 THEN JsonLoads(row.metadata) ELSE Some(<<>>),
     timestamp |-> row.timestamp]

\* What recall_consultations(agent_name, limit, days) can return.
recall_consultations(agent_name, limit, days) ==
    {[k \in DOMAIN p |-> ConsultationDict(consultations[p[k]])] :
        p \in Ordered(consultations, Selected(consultations, agent_name, None, days), limit)}

\* What recall_tasks(agent_name, task_type, limit, days) can return.
recall_tasks(agent_name, task_type, limit, days) ==
    {[k \in DOMAIN p |-> TaskDict(tasks[p[k]])] :
        p \in Ordered(tasks, Selected(tasks, agent_name, task_type, days), limit)}

\* A call of recall_consultations().
RecallConsultations(agent_name, limit, days) ==
    /\ \E result \in recall_consultations(agent_name, limit, days) :
          lastRecall' = <<[op |-> "recall_consultations", agent_name |-> agent_name,
                           task_type |-> None, limit |-> limit, days |-> days,
                           at |-> today, result |-> result]>>
    /\ UNCHANGED <<consultations, tasks, today, written>>
    /\ StoreFrame

\* A call of recall_tasks().
RecallTasks(agent_name, task_type, limit, days) ==
    /\ \E result \in recall_tasks(agent_name, task_type, limit, days) :
          lastRecall' = <<[op |-> "recall_tasks", agent_name |-> agent_name,
                           task_type |-> task_type, limit |-> limit, days |-> days,
                           at |-> today, result |-> result]>>
    /\ UNCHANGED <<consultations, tasks, today, written>>
    /\ StoreFrame

\* text LIKE pattern in SQLite: % matches any run of characters, _ any one
\* character, and the letters A-Z match their lower-case forms.
RECURSIVE Like(_, _)
Like(text, pattern) ==
    IF Len(pattern) = 0 THEN Len(text) = 0
    ELSE IF CharAt(pattern, 1) = "%"
    THEN \/ Like(text, Tail(pattern))
         \/ Len(text) > 0 /\ Like(Tail(text), pattern)
    ELSE /\ Len(text) > 0
         /\ \/ CharAt(pattern, 1) = "_"
            \/ LowerChar(CharAt(text, 1)) = LowerChar(CharAt(pattern, 1))
         /\ Like(Tail(text), Tail(pattern))

\* column LIKE ? for a column that may be NULL.
LikeColumn(value, pattern) == ~value.none /\ Like(value.v, pattern)

\* list.sort(key=timestamp, reverse=True): descending, equal keys keep their order.
RECURSIVE SortNewestFirst(_)
SortNewestFirst(results) ==
    IF Len(results) = 0 THEN <<>>
    ELSE LET newest == CHOOSE i \in DOMAIN results :
                          /\ \A j \in DOMAIN results :
                                ~TextLess(results[i].timestamp, results[j].timestamp)
                          /\ \A j \in 1..(i - 1) :
                                TextLess(results[j].timestamp, results[i].timestamp)
             rest == [k \in 1..(Len(results) - 1) |->
                         IF k < newest THEN results[k] ELSE results[k + 1]]
         IN  <<results[newest]>> \o SortNewestFirst(rest)

\* The dictionaries search() builds from the rows of the two tables.
SearchConsultation(row) ==
    [type |-> "consultation", id |-> row.id, agent |-> row.agent_name,
     text |-> row.query, more |-> Some(Prefix(row.response, 200) \o "..."),
     task_type |-> None, timestamp |-> row.timestamp]

SearchTask(row) ==
    [type |-> "task", id |-> row.id, agent |-> row.agent_name,
     text |-> row.description,
     more |-> IF Falsy(row.result) THEN None
              ELSE Some(Prefix(row.result.v, 200) \o "..."),
     task_type |-> Some(row.task_type), timestamp |-> row.timestamp]

\* What search(keyword, limit) can return.
search(keyword, limit) ==
    LET pattern == "%" \o keyword \o "%"
        found_c == {i \in DOMAIN consultations :
                       \/ Like(consultations[i].query, pattern)
                       \/ Like(consultations[i].response, pattern)}
        found_t == {i \in DOMAIN tasks :
                       \/ Like(tasks[i].description, pattern)
                       \/ LikeColumn(tasks[i].result, pattern)}
    IN  {Prefix(SortNewestFirst(
                    [k \in DOMAIN pc |-> SearchConsultation(consultations[pc[k]])]
                    \o [k \in DOMAIN pt |-> SearchTask(tasks[pt[k]])]), limit) :
            pc \in Ordered(consultations, found_c, limit),
            pt \in Ordered(tasks, found_t, limit)}

\* A call of search().
Search(keyword, limit) ==
    /\ \E result \in search(keyword, limit) :
          lastRecall' = <<[op |-> "search", keyword |-> keyword, limit |-> limit,
                           at |-> today, result |-> result]>>
    /\ UNCHANGED <<consultations, tasks, today, written>>
    /\ StoreFrame

\* ------------------------------------------------------------------------
\* TaskTracker (core/task_tracker.py)
\* ------------------------------------------------------------------------
\* What get_context() returns when it found nothing.
NoContext == "[Pas de contexte anterieur trouve]"

\* str() of a small count.
Str(n) == IF n < 10 THEN Digit(n) ELSE Digit(n \div 10) \o Digit(n % 10)

\* "\n".join(parts)
RECURSIVE Join(_)
Join(parts) ==
    IF Len(parts) = 0 THEN ""
    ELSE IF Len(parts) = 1 THEN parts[1]
    ELSE parts[1] \o "\n" \o Join(Tail(parts))

\* The characters \w matches in a lower-cased text.
WordChars == {CharAt("abcdefghijklmnopqrstuvwxyz0123456789_", i) : i \in 1..37}

\* re.findall(r'\b\w+\b', text): the words of the text from position i on,
\* current being the word read so far.
RECURSIVE findall_words(_, _, _)
findall_words(text, i, current) ==
    IF i > Len(text) THEN (IF current = "" THEN {} ELSE {current})
    ELSE IF CharAt(text, i) \in WordChars
    THEN findall_words(text, i + 1, current \o CharAt(text, i))
    ELSE (IF current = "" THEN {} ELSE {current}) \cup findall_words(text, i + 1, "")

stop_words ==
    {"the", "a", "an", "and", "or", "but", "in", "on", "at", "to", "for",
     "of", "with", "by", "from", "up", "about", "into", "through", "during",
     "is", "are", "was", "were", "be", "been", "being", "have", "has", "had",
     "do", "does", "did", "will", "would", "should", "could", "can", "may",
     "mon", "ma", "mes", "le", "la", "les", "un", "une", "des", "de", "du",
     "et", "ou", "mais", "pour", "dans", "sur", "avec", "par", "que", "qui",
     "comment", "quoi"}

\* _extract_keywords(text, min_length=4): the set of keywords.
extract_keywords(text) ==
    {w \in findall_words(lower(text), 1, "") : Len(w) >= 4 /\ w \notin stop_words}

\* (task['description'] + " " + (task['result'] or "")).lower()
TaskText(task) ==
    lower(task.description \o " " \o (IF Falsy(task.result) THEN "" ELSE task.result.v))

\* How many keywords the text of a task contains.
Matches(task, keywords) == Cardinality({kw \in keywords : Contains(TaskText(task), kw)})

\* has_done_before(agent_name, keywords, days), on the tasks it recalled.
has_done_before(recalled, keywords) ==
    \E i \in DOMAIN recalled : Matches(recalled[i], keywords) > 0

\* (datetime.now() - datetime.fromisoformat(timestamp)).days
age_days(timestamp) == CHOOSE a \in 0..today : IsoFormat(today - a) = timestamp

\* similar_tasks.sort(key=matches, reverse=True): descending, equal keys
\* keep their order.
RECURSIVE SortByMatches(_, _)
SortByMatches(found, keywords) ==
    IF Len(found) = 0 THEN <<>>
    ELSE LET best == CHOOSE i \in DOMAIN found :
                        /\ \A j \in DOMAIN found :
                              Matches(found[j], keywords) <= Matches(found[i], keywords)
                        /\ \A j \in 1..(i - 1) :
                              Matches(found[j], keywords) < Matches(found[i], keywords)
             rest == [k \in 1..(Len(found) - 1) |->
                         IF k < best THEN found[k] ELSE found[k + 1]]
         IN  <<found[best]>> \o SortByMatches(rest, keywords)

\* _get_suggestions() without the notice of a first consultation.
get_suggestions_silent(tasks90, tasks14, query) == <<>>

\* _get_suggestions(agent_name, query), on the tasks of the last 90 days and
\* of the last 14 days it recalled: the notice of a first consultation, or
\* the task type with the highest count (the first met among equals) and,
\* when a task of the last 14 days contains a keyword of the query, a
\* warning.
get_suggestions(tasks90, tasks14, query) ==
    IF Len(tasks90) = 0
    THEN <<"Premiere consultation avec cet agent">>
    ELSE LET count(t) == Cardinality({i \in DOMAIN tasks90 : tasks90[i].task_type = t})
             first(t) == CHOOSE i \in DOMAIN tasks90 :
                            /\ tasks90[i].task_type = t
                            /\ \A j \in 1..(i - 1) : tasks90[j].task_type # t
             types == {tasks90[i].task_type : i \in DOMAIN tasks90}
             top_type == CHOOSE t \in types :
                            \A u \in types :
                                \/ count(u) < count(t)
                                \/ count(u) = count(t) /\ first(t) <= first(u)
             keywords == extract_keywords(query)
         IN  <<"Tu as deja fait " \o Str(count(top_type)) \o " taches de type '"
                 \o top_type \o "' avec cet agent">>
             \o (IF keywords # {} /\ has_done_before(tasks14, keywords)
                 THEN <<"Attention: Une tache similaire a ete faite recemment (voir contexte ci-dessus)">>
                 ELSE <<>>)

\* The parts of get_context(agent_name, query, max_items), on what its
\* recalls returned: the recent consultations, the similar tasks of the
\* last 30 days, the suggestions.
context_parts(recent, tasks30, tasks90, tasks14, query, max_items) ==
    LET keywords == extract_keywords(query)
        shown == Prefix(recent, max_items)
        found == SelectSeq(tasks30, LAMBDA task : Matches(task, keywords) > 0)
        similar == Prefix(SortByMatches(found, keywords), max_items)
        suggestions == get_suggestions(tasks90, tasks14, query)
    IN  (IF Len(recent) > 0
         THEN <<"=== CONSULTATIONS RECENTES ===">> \o
              [i \in DOMAIN shown |->
                  "[" \o Str(i) \o "] Il y a " \o Str(age_days(shown[i].timestamp))
                  \o " jours:\n    Q: " \o shown[i].query
                  \o "\n    R: " \o Prefix(shown[i].response, 150) \o "..."]
         ELSE <<>>)
        \o
        (IF keywords # {} /\ Len(similar) > 0
         THEN <<"\n=== TACHES SIMILAIRES PASSEES ===">> \o
              [i \in DOMAIN similar |->
                  "[" \o Str(i) \o "] Il y a " \o Str(age_days(similar[i].timestamp))
                  \o " jours - " \o similar[i].task_type \o ":\n    "
                  \o similar[i].description \o "\n    Resultat: "
                  \o Prefix(IF Falsy(similar[i].result) THEN "N/A" ELSE similar[i].result.v, 150)
                  \o "..."]
         ELSE <<>>)
        \o
        (IF Len(suggestions) > 0
         THEN <<"\n=== SUGGESTIONS ===">> \o
              [i \in DOMAIN suggestions |-> "- " \o suggestions[i]]
         ELSE <<>>)

\* The text get_context() returns for its parts.
context_text(parts) == IF Len(parts) = 0 THEN NoContext ELSE Join(parts)

\* The enriched query consult_async() builds around the context.
enriched_query(context, query) ==
    "\n" \o context \o "\n\n==================\nNOUVELLE REQUETE:\n" \o query
    \o "\n==================\n\nReponds en tenant compte du contexte ci-dessus si pertinent.\n"

\* consult_async() retrieves the context of a consultation and builds the
\* enriched query: get_context(agent.name, query) with its four recalls.
GetContext(agent_name, query) ==
    /\ \E recent \in recall_consultations(Some(agent_name), 3, Some(14)),
          tasks30 \in recall_tasks(Some(agent_name), None, 20, Some(30)),
          tasks90 \in recall_tasks(Some(agent_name), None, 50, Some(90)),
          tasks14 \in recall_tasks(Some(agent_name), None, 50, Some(14)) :
          LET parts == context_parts(recent, tasks30, tasks90, tasks14, query, 3)
              context == context_text(parts)
          IN  lastRecall' = <<[op |-> "get_context", agent_name |-> agent_name,
                               query |-> query, at |-> today, tasks90 |-> tasks90,
                               parts |-> parts, context |-> context,
                               enriched |-> enriched_query(context, query)]>>
    /\ UNCHANGED <<consultations, tasks, today, written>>
    /\ StoreFrame

\* log_task(agent_name, task_type, description, result, status, metadata)
LogTask(agent_name, task_type, description, result) ==
    RememberTask(agent_name, task_type, description, result, "completed", None)

\* Wall time passes between the consultations.
ContextTick ==
    /\ today + ContextDayStep <= StartDay + ContextMaxDays
    /\ today' = today + ContextDayStep
    /\ lastRecall' = <<>>
    /\ UNCHANGED <<consultations, tasks, written>>
    /\ StoreFrame

\* ------------------------------------------------------------------------
\* JARVISRouter (jarvis_router.py) and the expert agents it loads
\* ------------------------------------------------------------------------
DataAliases == {"dataengineer", "data", "data_engineer"}
BackendAliases == {"backend", "backendexpert", "backend_expert"}
DevOpsAliases == {"devops", "sre", "devops_sre"}
AIAliases == {"ai", "aiengineer", "ai_engineer", "llm"}

\* The name of the agent _load_agent constructs for a key ("" when it raises).
AgentFor(key) ==
    IF key \in DataAliases THEN "DataEngineer"
    ELSE IF key \in BackendAliases THEN "BackendExpert"
    ELSE IF key \in DevOpsAliases THEN "DevOpsSRE"
    ELSE IF key \in AIAliases THEN "AIEngineer"
    ELSE ""

\* The prefix of the working-memory key an agent's consult() writes.
ConsultPrefix(name) ==
    CASE name = "DataEngineer" -> "data_consult_"
      [] name = "BackendExpert" -> "backend_consult_"
      [] name = "DevOpsSRE" -> "devops_consult_"
      [] OTHER -> "ai_consult_"

\* agent_name.lower() alone.
normalize_lower(agent_name) == lower(agent_name)

\* agent_name.lower().strip()
normalize(agent_name) == strip(lower(agent_name))

\* The message of the ValueError of _load_agent.
UnknownAgent(key) ==
    "Unknown agent: " \o key \o ". Available: dataengineer, backend, devops, ai"

\* The message of the RuntimeError of asyncio.run() under a running loop.
RunningLoop == "asyncio.run() cannot be called from a running event loop"

\* The class attribute `_instance = None`; no router object exists yet.
ClassInit ==
    /\ instance = None
    /\ routers = 0

\* JARVISRouter.__init__
RouterInit ==
    /\ initialized = FALSE
    /\ constructions = 0
    /\ agents = [key \in {} |-> 0]
    /\ instances = [id \in {} |-> 0]
    /\ working_memory = {}
    /\ inflight = <<>>
    /\ lastOp = <<>>

\* _ensure_initialized() without its early return.
ensure_initialized_unguarded ==
    [initialized |-> TRUE, constructions |-> constructions + 1]

\* _ensure_initialized(): builds the brain, the store and the tracker unless
\* the router is initialized.
ensure_initialized ==
    IF initialized
    THEN [initialized |-> initialized, constructions |-> constructions]
    ELSE [initialized |-> TRUE, constructions |-> constructions + 1]

\* agent.start(): the agent runs and writes its status entry.
StatusEntry(name) ==
    [key |-> name \o "_status", n |-> 0, type |-> "agent_status", agent |-> name]

\* _load_agent(agent_name) called with or without a running event loop: how
\* it ends and the router it leaves.  Under a running loop asyncio.run()
\* raises before agent.start() runs; the agent just constructed is dropped.
\* Every cache miss that gets as far constructs a new object, so the key
\* that missed identifies the object.
load_agent(agent_name, in_loop) ==
    LET key == normalize(agent_name)
        name == AgentFor(key)
        kept == [agents |-> agents, instances |-> instances,
                 working_memory |-> working_memory]
    IN  IF key \in DOMAIN agents
        THEN [outcome |-> "cached", agent |-> agents[key], error |-> "",
              init |-> [initialized |-> initialized, constructions |-> constructions],
              constructed |-> "", router |-> kept]
        ELSE IF name = ""
        THEN [outcome |-> "ValueError", agent |-> "", error |-> UnknownAgent(key),
              init |-> ensure_initialized, constructed |-> "", router |-> kept]
        ELSE IF in_loop
        THEN [outcome |-> "RuntimeError", agent |-> "", error |-> RunningLoop,
              init |-> ensure_initialized, constructed |-> name, router |-> kept]
        ELSE [outcome |-> "loaded", agent |-> key, error |-> "",
              init |-> ensure_initialized, constructed |-> name,
              router |-> [agents |-> (key :> key) @@ agents,
                          instances |-> (key :> [name |-> name, running |-> TRUE])
                                        @@ instances,
                          working_memory |-> working_memory \cup {StatusEntry(name)}]]

\* _detect_task_type(query) with the optimization bucket checked first.
detect_task_type_optimization_first(query) ==
    LET query_lower == lower(query)
        any(words) == \E word \in words : Contains(query_lower, word)
    IN  IF any({"optimize", "improve", "faster", "performance"}) THEN "optimization"
        ELSE IF any({"audit", "check", "review", "analyze"}) THEN "audit"
        ELSE IF any({"design", "architecture", "create", "build"}) THEN "design"
        ELSE IF any({"debug", "fix", "error", "issue", "problem"}) THEN "debugging"
        ELSE IF any({"how to", "explain", "what is"}) THEN "consultation"
        ELSE "general"

\* _detect_task_type(query)
detect_task_type(query) ==
    LET query_lower == lower(query)
        any(words) == \E word \in words : Contains(query_lower, word)
    IN  IF any({"audit", "check", "review", "analyze"}) THEN "audit"
        ELSE IF any({"optimize", "improve", "faster", "performance"}) THEN "optimization"
        ELSE IF any({"design", "architecture", "create", "build"}) THEN "design"
        ELSE IF any({"debug", "fix", "error", "issue", "problem"}) THEN "debugging"
        ELSE IF any({"how to", "explain", "what is"}) THEN "consultation"
        ELSE "general"

\* PersistentMemory.get_stats()
get_stats ==
    LET stamps == {consultations[i].timestamp : i \in DOMAIN consultations}
                  \cup {tasks[i].timestamp : i \in DOMAIN tasks}
    IN  [consultations_count |-> Len(consultations),
         tasks_count |-> Len(tasks),
         total_memories |-> Len(consultations) + Len(tasks),
         agents |-> {consultations[i].agent_name : i \in DOMAIN consultations}
                    \cup {tasks[i].agent_name : i \in DOMAIN tasks},
         last_activity |-> IF stamps = {} THEN None
                           ELSE Some(CHOOSE t \in stamps : \A u \in stamps : ~TextLess(t, u))]

\* What a router call sees before its own effects.
Before ==
    [agents |-> agents, instances |-> instances, working_memory |-> working_memory,
     inflight |-> inflight, instance |-> instance, tasks |-> Len(tasks),
     consultations |-> Len(consultations)]

\* The record of a router call that has ended.
Ended(op, agent_name, query, task_type, in_loop, lookup, constructed, outcome, error, result, events) ==
    <<[op |-> op, agent_name |-> agent_name, query |-> query, task_type |-> task_type,
       in_loop |-> in_loop, events |-> events,
       lookup |-> lookup, constructed |-> constructed, outcome |-> outcome,
       error |-> error, result |-> result, before |-> Before]>>

\* The router after a _load_agent call.
Loaded(L) ==
    /\ initialized' = L.init.initialized
    /\ constructions' = L.init.constructions
    /\ agents' = L.router.agents
    /\ instances' = L.router.instances
    /\ working_memory' = L.router.working_memory

HistoryLimit20 == 20

\* consult() keeps its thread inside asyncio.run() until its coroutine ends:
\* nothing else runs meanwhile.
Blocked == \E i \in DOMAIN inflight : inflight[i].via = "consult"

\* get_history(agent_name, days), called with or without a running event loop.
\* A synchronous caller cannot run while the event loop awaits an agent.
GetHistory(agent_name, days, in_loop) ==
    /\ ~Blocked
    /\ in_loop \/ inflight = <<>>
    /\ IF Falsy(agent_name)
       THEN /\ initialized' = ensure_initialized.initialized
            /\ constructions' = ensure_initialized.constructions
            /\ UNCHANGED <<agents, instances, working_memory>>
            /\ \E result \in recall_consultations(agent_name, HistoryLimit20, Some(days)) :
                  lastOp' = Ended("get_history", agent_name, "", None, in_loop, "none", "",
                                  "returned", "", result, <<>>)
       ELSE LET L == load_agent(agent_name.v, in_loop)
            IN  /\ Loaded([L EXCEPT !.init = ensure_initialized])
                /\ IF L.outcome \in {"cached", "loaded"}
                   THEN \E result \in recall_consultations(
                                Some(L.router.instances[L.agent].name),
                                HistoryLimit20, Some(days)) :
                           lastOp' = Ended("get_history", agent_name, "", None, in_loop,
                                           L.outcome, L.constructed, "returned", "",
                                           result, <<>>)
                   ELSE lastOp' = Ended("get_history", agent_name, "", None, in_loop,
                                        L.outcome, L.constructed, L.outcome, L.error,
                                        <<>>, <<>>)
    /\ UNCHANGED <<inflight, storeVars>>
    /\ RouterFrame

\* get_stats()
GetStats ==
    /\ ~Blocked
    /\ initialized' = ensure_initialized.initialized
    /\ constructions' = ensure_initialized.constructions
    /\ lastOp' = Ended("get_stats", None, "", None, FALSE, "none", "", "returned", "",
                       get_stats, <<>>)
    /\ UNCHANGED <<agents, instances, working_memory, inflight, storeVars>>
    /\ RouterFrame

\* The steps of consult_async() before it suspends, in program order: the
\* prompt built ahead of the context.
StartEvents_prompt_first == <<"loaded", "prompt", "context", "consult">>

\* The steps of consult_async() before it suspends, in program order:
\* _load_agent, get_context, the enriched prompt, agent.consult.
StartEvents == <<"loaded", "context", "prompt", "consult">>

\* The steps of consult_async() after the agent's answer, in program order.
FinishEvents == <<"response", "logged">>

\* consult(agent_name, query, task_type): asyncio.run(consult_async(...)), or
\* consult_async(...) awaited in a running loop, up to `await agent.consult`.
\* consult() called under a running loop raises at once; otherwise
\* _load_agent runs under the loop of the coroutine.  get_context() only reads.
consult_start(via, agent_name, query, task_type, in_loop) ==
    /\ ~Blocked
    /\ via = "consult_async" => in_loop
    /\ ~in_loop => inflight = <<>>
    /\ IF via = "consult" /\ in_loop
       THEN /\ lastOp' = Ended(via, Some(agent_name), query, task_type, in_loop, "none", "",
                               "RuntimeError", RunningLoop, "", <<>>)
            /\ UNCHANGED <<initialized, constructions, agents, instances, working_memory,
                           inflight>>
       ELSE LET L == load_agent(agent_name, TRUE)
            IN  /\ Loaded(L)
                /\ IF L.outcome = "cached"
                   THEN /\ inflight' = Append(inflight,
                               [via |-> via, agent_name |-> agent_name, query |-> query,
                                task_type |-> task_type, agent |-> L.agent,
                                events |-> StartEvents])
                        /\ lastOp' = <<>>
                   ELSE /\ lastOp' = Ended(via, Some(agent_name), query, task_type, in_loop,
                                           L.outcome, L.constructed, L.outcome,
                                           L.error, "", <<>>)
                        /\ UNCHANGED inflight
    /\ UNCHANGED storeVars

\* A call of consult() or consult_async() by a caller of the router.
ConsultStart(via, agent_name, query, task_type, in_loop) ==
    /\ consult_start(via, agent_name, query, task_type, in_loop)
    /\ RouterFrame

\* The i-th suspended coroutine resumes: agent.consult() returns the brain's
\* answer and writes its working-memory entry; consult_async() logs the task
\* and returns the response.
consult_finish(i, response) ==
    /\ i \in DOMAIN inflight
    /\ LET c == inflight[i]
           agent == instances[c.agent]
           task_type == IF c.task_type.none THEN detect_task_type(c.query)
                        ELSE c.task_type.v
           consults == {e \in working_memory : e.type = "expert_consultation"}
       IN  /\ working_memory' = working_memory \cup
                  {[key |-> ConsultPrefix(agent.name), n |-> Cardinality(consults) + 1,
                    type |-> "expert_consultation", agent |-> agent.name]}
           /\ remember_task(agent.name, task_type, Prefix(c.query, 200),
                            Some(Prefix(response, 500)), "completed", None)
           /\ lastOp' = Ended(c.via, Some(c.agent_name), c.query, c.task_type,
                              c.via = "consult_async", "cached", "", "returned", "",
                              response, c.events \o FinishEvents)
    /\ inflight' = [k \in 1..(Len(inflight) - 1) |->
                       IF k < i THEN inflight[k] ELSE inflight[k + 1]]
    /\ UNCHANGED <<initialized, constructions, agents, instances>>

\* The event loop resumes a suspended coroutine of a caller of the router.
ConsultFinish(i, response) ==
    /\ consult_finish(i, response)
    /\ RouterFrame

\* JARVISRouter.get_instance(): constructs the router when the class holds
\* none and returns the router the class holds.  The router fields of the
\* state are those of that object, which __init__ leaves as RouterInit.
GetInstance ==
    /\ instance' = IF instance.none THEN Some(routers + 1) ELSE instance
    /\ routers' = IF instance.none THEN routers + 1 ELSE routers
    /\ lastOp' = Ended("get_instance", None, "", None, FALSE, "none", "", "returned", "",
                       instance'.v, <<>>)
    /\ UNCHANGED <<initialized, constructions, agents, instances, working_memory, inflight>>
    /\ UNCHANGED <<batteryVars, brainVars, storeVars, reviewerVars, schemaVars,
                   portableVars, hooksVars, auditVars, monitorVars>>

\* ------------------------------------------------------------------------
\* CodeReviewerAgent (agents/reviewer_agent.py)
\* ------------------------------------------------------------------------
\* CodeReviewerAgent.__init__
ReviewerInit ==
    /\ reviews_completed = 0
    /\ review_memory = <<>>
    /\ lastReview = <<>>

\* approved computed as score > 60.
Approved_above(score) == score > 60

\* 'approved': score >= 60
Approved(score) == score >= 60

\* _review_code(code)
review_code(code) ==
    LET short == Len(code) < 10
        no_function == /\ ~Contains(code, "def")
                       /\ ~Contains(code, "function")
                       /\ ~Contains(code, "class")
        no_comment == ~Contains(code, "# ") /\ ~Contains(code, "\"\"\"")
        no_import == ~Contains(code, "import")
        score == 70 - (IF short THEN 10 ELSE 0) - (IF no_function THEN 10 ELSE 0)
                    - (IF no_comment THEN 5 ELSE 0) - (IF no_import THEN 5 ELSE 0)
    IN  [success |-> TRUE,
         score |-> Max(0, score),
         issues |-> (IF short THEN <<"Code trop court">> ELSE <<>>)
                    \o (IF no_function THEN <<"Pas de fonction/classe detectee">> ELSE <<>>)
                    \o (IF no_comment THEN <<"Pas de commentaires/docstrings">> ELSE <<>>)
                    \o (IF no_import THEN <<"Pas d'imports detectes">> ELSE <<>>),
         suggestions |-> <<"Ajouter des docstrings", "Ajouter des tests">>,
         approved |-> Approved(score)]

\* execute_task({'code': code, 'description': description}): the review, the
\* summary handed to brain.remember() and the counter.
execute_task(code, description) ==
    /\ reviews_completed < MaxReviews
    /\ LET result == review_code(code)
       IN  /\ lastReview' = <<[code |-> code, result |-> result]>>
           /\ review_memory' = Append(review_memory,
                  [description |-> description, score |-> result.score])
    /\ reviews_completed' = reviews_completed + 1
    /\ ReviewerFrame

\* ------------------------------------------------------------------------
\* PersistentMemory.__init__ / _init_schema on a database file
\* ------------------------------------------------------------------------
\* The objects _init_schema creates, in its order.
SchemaObjects ==
    <<"consultations", "tasks", "idx_consultations_agent", "idx_consultations_timestamp",
      "idx_tasks_agent", "idx_tasks_timestamp", "idx_tasks_type">>

Exists(objects, name) == \E i \in DOMAIN objects : objects[i] = name

\* CREATE TABLE / CREATE INDEX without IF NOT EXISTS: an existing name is an error.
Create(db, name) ==
    IF db.error THEN db
    ELSE IF Exists(db.objects, name) THEN [db EXCEPT !.error = TRUE]
    ELSE [db EXCEPT !.objects = Append(db.objects, name)]

\* CREATE TABLE IF NOT EXISTS / CREATE INDEX IF NOT EXISTS
CreateIfNotExists(db, name) ==
    IF db.error \/ Exists(db.objects, name) THEN db
    ELSE [db EXCEPT !.objects = Append(db.objects, name)]

\* _init_schema(): the statements from the n-th on.
RECURSIVE init_schema(_, _)
init_schema(db, n) ==
    IF n > Len(SchemaObjects) THEN db
    ELSE init_schema(CreateIfNotExists(db, SchemaObjects[n]), n + 1)

\* The database file after a first construction.
SchemaInit ==
    /\ schema = SchemaObjects
    /\ lastOpen = <<>>

\* PersistentMemory(db_path) on the file, whatever it holds.
Construct ==
    /\ LET db == init_schema([objects |-> schema, error |-> FALSE], 1)
       IN  /\ schema' = db.objects
           /\ lastOpen' = <<[before |-> [schema |-> schema, consultations |-> consultations,
                                        tasks |-> tasks],
                            error |-> db.error]>>
    /\ UNCHANGED storeVars
    /\ SchemaFrame

\* ------------------------------------------------------------------------
\* JARVISPortable (start_jarvis.py)
\* ------------------------------------------------------------------------
\* The agents _init_agents can construct, in the order of its statements:
\* the key in JARVISPortable.agents, the class and the name given.
AgentOrder ==
    <<[key |-> "monitor", class |-> "NetworkMonitorAgent", name |-> "Monitor_Portable"],
      [key |-> "indexer", class |-> "MemoryIndexerAgent", name |-> "Indexer_Portable"],
      [key |-> "learner", class |-> "LearningAgent", name |-> "Learner_Portable"],
      [key |-> "coder", class |-> "CoderAgent", name |-> "Coder_Portable"],
      [key |-> "reviewer", class |-> "CodeReviewerAgent", name |-> "Reviewer_Portable"],
      [key |-> "backend_expert", class |-> "BackendExpertAgent", name |-> "BackendExpert"],
      [key |-> "data_engineer", class |-> "DataEngineerAgent", name |-> "DataEngineer"],
      [key |-> "devops_sre", class |-> "DevOpsSREAgent", name |-> "DevOpsSRE"],
      [key |-> "ai_engineer", class |-> "AIEngineerAgent", name |-> "AIEngineer"]>>

AgentKeys == {AgentOrder[i].key : i \in DOMAIN AgentOrder}

\* get_profile_config(profile): the fields the main process reads.
get_profile_config(profile) ==
    CASE profile = "PERFORMANCE" ->
            [agents_actifs |-> 9, monitoring_interval |-> 60, use_claude_sdk |-> TRUE]
      [] profile = "BALANCED" ->
            [agents_actifs |-> 5, monitoring_interval |-> 120, use_claude_sdk |-> TRUE]
      [] profile = "ECO" ->
            [agents_actifs |-> 2, monitoring_interval |-> 300, use_claude_sdk |-> FALSE]
      [] profile = "CRITICAL" ->
            [agents_actifs |-> 1, monitoring_interval |-> 600, use_claude_sdk |-> FALSE]

\* `if agents_count > k` in place of `if agents_count >= k`.
Enabled_above(k, agents_count) == k = 1 \/ agents_count > k

\* Whether _init_agents constructs the k-th agent: the monitor always, the
\* others under `if agents_count >= k`.
Enabled(k, agents_count) == k = 1 \/ agents_count >= k

\* _init_agents(profile, config): the agents constructed, in order.
init_agents(agents_count) ==
    LET kept == {k \in DOMAIN AgentOrder : Enabled(k, agents_count)}
        nth(i) == CHOOSE k \in kept : Cardinality({j \in kept : j <= k}) = i
    IN  [i \in 1..Cardinality(kept) |-> AgentOrder[nth(i)]]

\* The default of NetworkMonitorAgent.monitoring_interval.
DefaultInterval == 60

\* JARVISPortable.__init__, before main() calls initialize().
PortableCreated ==
    /\ portable_agents = <<>>
    /\ portable_objects = [key \in {} |-> 0]
    /\ monitoring_interval = DefaultInterval
    /\ portable_running = FALSE
    /\ portable_brain = "none"
    /\ heartbeat_count = 0
    /\ stage = "created"
    /\ lastStep = <<>>

\* The process with the agents of the repository: no stop() raises.
PortableInit ==
    /\ PortableCreated
    /\ faulty = {}

PortableFrame ==
    UNCHANGED <<brainVars, storeVars, routerVars, reviewerVars, schemaVars, classVars,
                hooksVars, auditVars, monitorVars>>

\* The elements of a sequence.
Range(seq) == {seq[i] : i \in DOMAIN seq}

\* The state the process steps record.
Held == [agents |-> portable_agents, objects |-> portable_objects,
         interval |-> monitoring_interval, brain |-> portable_brain]

\* initialize(): reads the battery, constructs the brain and the agents of
\* the profile of the reading.
Initialize ==
    /\ stage = "created"
    /\ LET status == get_battery_status(sensor)
           profile == get_performance_profile(status)
           config == get_profile_config(profile)
           built == init_agents(config.agents_actifs)
       IN  /\ portable_brain' = "open"
           /\ portable_agents' = [i \in DOMAIN built |-> built[i].key]
           /\ portable_objects' =
                 [key \in {built[i].key : i \in DOMAIN built} |->
                     LET a == CHOOSE i \in DOMAIN built : built[i].key = key
                     IN  [class |-> built[a].class, name |-> built[a].name,
                          running |-> FALSE, stops |-> 0]]
           /\ monitoring_interval' = config.monitoring_interval
           /\ lastStep' = <<[op |-> "initialize", status |-> status, profile |-> profile,
                             before |-> Held, called |-> <<>>, raised |-> FALSE]>>
    /\ stage' = "initialized"
    /\ UNCHANGED <<portable_running, heartbeat_count, faulty>>
    /\ UNCHANGED batteryVars
    /\ PortableFrame

\* start_production(): running, and start() of every agent held.
StartProduction ==
    /\ stage = "initialized"
    /\ portable_running' = TRUE
    /\ portable_objects' = [key \in DOMAIN portable_objects |->
                               IF key \in Range(portable_agents)
                               THEN [portable_objects[key] EXCEPT !.running = TRUE]
                               ELSE portable_objects[key]]
    /\ lastStep' = <<[op |-> "start_production", status |-> get_battery_status(sensor),
                      profile |-> current_profile, before |-> Held, called |-> <<>>,
                      raised |-> FALSE]>>
    /\ stage' = "sleeping"
    /\ UNCHANGED <<portable_agents, monitoring_interval, portable_brain, heartbeat_count,
                   faulty>>
    /\ UNCHANGED batteryVars
    /\ PortableFrame

\* The heartbeat interval of run_forever().
HeartbeatSleep == 300

\* run_forever(): `await asyncio.sleep(300)` returns.
Sleep ==
    /\ stage = "sleeping"
    /\ heartbeat_count < MaxHeartbeats
    /\ now' = now + HeartbeatSleep
    /\ stage' = "awake"
    /\ UNCHANGED <<sensor, current_profile, last_check, battery_history, lastProfile,
                   lastCall, trueCalls>>
    /\ UNCHANGED <<portable_agents, portable_objects, monitoring_interval, portable_running,
                   portable_brain, heartbeat_count, faulty, lastStep>>
    /\ PortableFrame

\* A loop of `await agent.stop()` without a handler: stop() is called on the
\* agents in order up to the first one that raises, which ends the loop.
stop_unguarded(names) ==
    LET first == IF \E i \in DOMAIN names : names[i] \in faulty
                 THEN CHOOSE i \in DOMAIN names :
                         names[i] \in faulty /\ \A j \in 1..(i - 1) : names[j] \notin faulty
                 ELSE Len(names)
    IN  [called |-> SubSeq(names, 1, first),
         raised |-> \E i \in DOMAIN names : names[i] \in faulty]

\* The loop of shutdown() without its handler.
stop_uncaught(names) == stop_unguarded(names)

\* A loop of `try: await agent.stop() except: ...`: stop() is called on
\* every agent and nothing leaves the loop.
stop_guarded(names) == [called |-> names, raised |-> FALSE]

\* The agent objects after stop() was called on those of `called`: a stop()
\* of the repository clears the running flag where the class has one and
\* cannot raise; a stop() that raises does so before or after its effect
\* (the keys of `early` before).
Stopped(called, early) ==
    [key \in DOMAIN portable_objects |->
        IF key \in Range(called)
        THEN [portable_objects[key] EXCEPT
                 !.stops = @ + 1,
                 !.running = IF key \in early THEN @ ELSE FALSE]
        ELSE portable_objects[key]]

\* `if self.battery.current_profile in ("ECO", "CRITICAL")`
StopsNonEssential_eco(profile) == profile \in {"ECO", "CRITICAL"}

\* `if self.battery.current_profile == "CRITICAL"`
StopsNonEssential(profile) == profile = "CRITICAL"

\* _adapt_to_profile(): what it leaves, under the profile check_and_adapt set.
adapt_to_profile(profile) ==
    LET config == get_profile_config(profile)
        others == SelectSeq(portable_agents, LAMBDA name : name # "monitor")
        r == IF StopsNonEssential(profile) THEN stop_unguarded(others)
             ELSE [called |-> <<>>, raised |-> FALSE]
    IN  [interval |-> IF "monitor" \in Range(portable_agents)
                      THEN config.monitoring_interval ELSE monitoring_interval,
         agents |-> SelectSeq(portable_agents, LAMBDA name : name \notin Range(r.called)),
         called |-> r.called,
         raised |-> r.raised]

\* One iteration of run_forever() after the sleep: the heartbeat count,
\* check_and_adapt() and, when it returns True, _adapt_to_profile().  An
\* exception of _adapt_to_profile leaves run_forever, which handles only
\* KeyboardInterrupt, and ends main().
Heartbeat ==
    /\ stage = "awake"
    /\ heartbeat_count' = heartbeat_count + 1
    /\ check_and_adapt
    /\ IF lastCall'[1].ret
       THEN LET r == adapt_to_profile(current_profile')
            IN  /\ monitoring_interval' = r.interval
                /\ portable_agents' = r.agents
                /\ \E early \in SUBSET (Range(r.called) \cap faulty) :
                      portable_objects' = Stopped(r.called, early)
                /\ lastStep' = <<[op |-> "adapt", status |-> get_battery_status(sensor),
                                  profile |-> current_profile', before |-> Held,
                                  called |-> r.called, raised |-> r.raised]>>
                /\ stage' = IF r.raised THEN "crashed" ELSE "sleeping"
       ELSE /\ UNCHANGED <<monitoring_interval, portable_agents, portable_objects>>
            /\ lastStep' = <<[op |-> "heartbeat", status |-> get_battery_status(sensor),
                              profile |-> current_profile', before |-> Held,
                              called |-> <<>>, raised |-> FALSE]>>
            /\ stage' = "sleeping"
    /\ UNCHANGED <<portable_running, portable_brain, faulty>>
    /\ PortableFrame

\* A KeyboardInterrupt ends the sleep of run_forever(), whose handler awaits
\* shutdown(): running is cleared, stop() is called on every agent held with
\* each failure caught, and the brain is closed.
Shutdown ==
    /\ stage = "sleeping"
    /\ portable_running' = FALSE
    /\ LET r == stop_guarded(portable_agents)
       IN  /\ \E early \in SUBSET (Range(r.called) \cap faulty) :
                 portable_objects' = Stopped(r.called, early)
           /\ portable_brain' = IF ~r.raised /\ portable_brain = "open" THEN "closed"
                                ELSE portable_brain
           /\ lastStep' = <<[op |-> "shutdown", status |-> get_battery_status(sensor),
                             profile |-> current_profile, before |-> Held,
                             called |-> r.called, raised |-> r.raised]>>
           /\ stage' = IF r.raised THEN "crashed" ELSE "stopped"
    /\ UNCHANGED <<portable_agents, monitoring_interval, heartbeat_count, faulty>>
    /\ UNCHANGED batteryVars
    /\ PortableFrame

\* ------------------------------------------------------------------------
\* Hook installer (install_hooks.py)
\* ------------------------------------------------------------------------
\* hook_files
hook_files == <<"user-prompt-submit.py", "post-tool-use.py", "session-end.py">>

\* Path.with_suffix(suffix): the name up to its last dot, then the suffix.
with_suffix(name, suffix) ==
    LET dots == {i \in 1..Len(name) : SubSeq(name, i, i) = "."}
        last == IF dots = {} THEN Len(name) + 1
                ELSE CHOOSE i \in dots : \A j \in dots : j <= i
    IN  SubSeq(name, 1, last - 1) \o suffix

\* `"jarvis" in content.lower()`
IsJarvisHook_folded(content) == Contains(lower(content), "jarvis")

\* `"JARVIS" in content`
IsJarvisHook(content) == Contains(content, "JARVIS")

\* An empty hooks directory, no installer run.
HooksInit ==
    /\ claude_hooks_dir = [name \in {} |-> ""]
    /\ lastHookOp = <<>>
    /\ hookOrigin = claude_hooks_dir
    /\ hookRuns = <<>>

HooksFrame ==
    UNCHANGED <<batteryVars, brainVars, storeVars, routerVars, reviewerVars, schemaVars,
                classVars, portableVars, auditVars, monitorVars>>

\* shutil.copy2(src, dst) within the directory.
Copy(dir, src, dst) == (dst :> dir[src]) @@ dir

\* Path.unlink()
Unlink(dir, name) == [n \in DOMAIN dir \ {name} |-> dir[n]]

\* One pass of the loop of install_hooks() that copies: the backup of an
\* existing destination, then the copy of the source.
RECURSIVE install_from(_, _, _)
install_from(dir, k, source) ==
    IF k > Len(hook_files) THEN dir
    ELSE LET dst == hook_files[k]
             backed == IF dst \in DOMAIN dir
                       THEN Copy(dir, dst, with_suffix(dst, ".py.backup"))
                       ELSE dir
         IN  install_from((dst :> source[k]) @@ backed, k + 1, source)

\* install_hooks() with the three source hooks present; source is their
\* content, in the order of hook_files.
InstallHooks(source) ==
    /\ Len(hookRuns) < MaxHookRuns
    /\ hookRuns' = Append(hookRuns, "install")
    /\ UNCHANGED hookOrigin
    /\ claude_hooks_dir' = install_from(claude_hooks_dir, 1, source)
    /\ lastHookOp' = <<[op |-> "install", before |-> claude_hooks_dir, ret |-> TRUE]>>
    /\ HooksFrame

\* The loop of uninstall_hooks() from the k-th hook name on.
RECURSIVE uninstall_from(_, _)
uninstall_from(dir, k) ==
    IF k > Len(hook_files) THEN dir
    ELSE LET hook_path == hook_files[k]
             backup == with_suffix(hook_path, ".py.backup")
             removed == Unlink(dir, hook_path)
         IN  IF hook_path \in DOMAIN dir /\ IsJarvisHook(dir[hook_path])
             THEN uninstall_from(IF backup \in DOMAIN removed
                                 THEN Copy(removed, backup, hook_path)
                                 ELSE removed, k + 1)
             ELSE uninstall_from(dir, k + 1)

\* uninstall_hooks()
UninstallHooks ==
    /\ Len(hookRuns) < MaxHookRuns
    /\ hookRuns' = Append(hookRuns, "uninstall")
    /\ UNCHANGED hookOrigin
    /\ claude_hooks_dir' = uninstall_from(claude_hooks_dir, 1)
    /\ lastHookOp' = <<[op |-> "uninstall", before |-> claude_hooks_dir, ret |-> TRUE]>>
    /\ HooksFrame

\* ------------------------------------------------------------------------
\* System audit (audit_system.py)
\* ------------------------------------------------------------------------
\* The consultations of audit_complet() in the order of a different listing.
AuditAgents_sorted == <<"ai", "backend", "dataengineer", "devops">>

\* The agent names of the four `await router.consult_async(...)` statements
\* of audit_complet(), in program order.
AuditAgents == <<"devops", "backend", "dataengineer", "ai">>

\* questions[agent]: the first line of each question stands for its text.
questions(agent) ==
    CASE agent = "devops" -> "Audit complet infrastructure JARVIS laptop system:"
      [] agent = "backend" -> "Audit architecture backend JARVIS:"
      [] agent = "dataengineer" -> "Audit data pipeline JARVIS:"
      [] agent = "ai" -> "Audit intelligence JARVIS:"

\* audit_complet() not yet called, no report file.
AuditInit ==
    /\ audit = [pc |-> "idle", results |-> <<>>, events |-> <<>>]
    /\ report = None

AuditFrame ==
    UNCHANGED <<batteryVars, brainVars, reviewerVars, schemaVars, portableVars, hooksVars,
                monitorVars>>

\* audit_complet() starts under asyncio.run() and takes the router from
\* get_instance().
AuditBegin ==
    /\ audit.pc = "idle"
    /\ inflight = <<>>
    /\ instance' = IF instance.none THEN Some(routers + 1) ELSE instance
    /\ routers' = IF instance.none THEN routers + 1 ELSE routers
    /\ audit' = [audit EXCEPT !.pc = "next"]
    /\ UNCHANGED <<report, routerVars, storeVars>>
    /\ AuditFrame

\* The next `await router.consult_async(agent, questions[agent],
\* task_type="audit")` is reached: the call suspends at the agent, or raises,
\* and the exception leaves audit_complet(), which has no handler.
AuditConsult ==
    /\ audit.pc = "next"
    /\ LET agent == AuditAgents[Len(audit.results) + 1]
       IN  /\ consult_start("consult_async", agent, questions(agent), Some("audit"), TRUE)
           /\ audit' = IF Len(inflight') > Len(inflight)
                       THEN [audit EXCEPT !.pc = "awaiting",
                                          !.events = Append(@, <<"start", agent>>)]
                       ELSE [audit EXCEPT !.pc = "raised",
                                          !.events = @ \o <<<<"start", agent>>,
                                                           <<"raise", agent>>>>]
    /\ UNCHANGED <<report, classVars>>
    /\ AuditFrame

\* How many results audit_complet() needs before it writes the report.
ReportAfter == Len(AuditAgents)

\* The consultation awaited returns: its result is kept and, after the last
\* one, the summary is printed and audit_report.md is written, one section
\* for each result in the order of the results.
AuditResume(response) ==
    /\ audit.pc = "awaiting"
    /\ LET agent == AuditAgents[Len(audit.results) + 1]
           i == CHOOSE k \in DOMAIN inflight :
                   inflight[k].agent_name = agent /\ inflight[k].query = questions(agent)
           results == Append(audit.results, [agent |-> agent, response |-> response])
           returned == Append(audit.events, <<"return", agent>>)
       IN  /\ consult_finish(i, response)
           /\ IF Len(results) >= ReportAfter
              THEN /\ report' = Some(results)
                   /\ audit' = [pc |-> "done", results |-> results,
                                events |-> Append(returned, <<"report", "">>)]
              ELSE /\ UNCHANGED report
                   /\ audit' = [pc |-> "next", results |-> results, events |-> returned]
    /\ UNCHANGED classVars
    /\ AuditFrame

\* ------------------------------------------------------------------------
\* NetworkMonitorAgent (agents/monitor_agent.py)
\* ------------------------------------------------------------------------
\* NetworkMonitorAgent.__init__: not running, nothing collected, no loop.
\* stopped and the counters counted and woke of the loops are history
\* variables: whether stop() was the last of the start() and stop() calls,
\* and what each loop has done since that stop().
MonitorInit ==
    /\ mon = [brain |-> TRUE, running |-> FALSE, metrics_collected |-> 0, stopped |-> FALSE]
    /\ loops = <<>>

MonitorFrame ==
    UNCHANGED <<batteryVars, brainVars, storeVars, routerVars, reviewerVars, schemaVars,
                classVars, portableVars, hooksVars, auditVars>>

\* asyncio.create_task(self._monitoring_loop()): one more task, which runs
\* when the event loop gets to it.
create_task(tasks_) == Append(tasks_, [pc |-> "created", counted |-> 0, woke |-> 0])

\* start()
MonitorStart ==
    /\ Len(loops) < MaxLoops
    /\ mon' = [mon EXCEPT !.running = TRUE, !.stopped = FALSE]
    /\ loops' = create_task(loops)
    /\ MonitorFrame

\* stop()
MonitorStop ==
    /\ mon' = [mon EXCEPT !.running = FALSE, !.stopped = TRUE]
    /\ loops' = [i \in DOMAIN loops |-> [loops[i] EXCEPT !.counted = 0, !.woke = 0]]
    /\ MonitorFrame

\* The loop written as `while True:`.
loop_head_forever(i, woke) ==
    /\ mon.metrics_collected < MaxSamples
    /\ loops' = [loops EXCEPT ![i].pc = "sleeping", ![i].woke = woke, ![i].counted = @ + 1]
    /\ mon' = [mon EXCEPT !.metrics_collected = @ + 1]

\* The head of `while self.running:` in loop i: the loop ends, or collects
\* a sample and either suspends in `await asyncio.to_thread(...)` (with a
\* brain) or counts the sample and goes to sleep (without one).
loop_head(i, woke) ==
    IF ~mon.running
    THEN /\ loops' = [loops EXCEPT ![i].pc = "done", ![i].woke = woke]
         /\ UNCHANGED mon
    ELSE /\ mon.metrics_collected < MaxSamples
         /\ IF mon.brain
            THEN /\ loops' = [loops EXCEPT ![i].pc = "thread", ![i].woke = woke]
                 /\ UNCHANGED mon
            ELSE /\ loops' = [loops EXCEPT ![i].pc = "sleeping", ![i].woke = woke,
                                           ![i].counted = @ + 1]
                 /\ mon' = [mon EXCEPT !.metrics_collected = @ + 1]

\* The event loop runs a task for the first time.
LoopBegin(i) ==
    /\ loops[i].pc = "created"
    /\ loop_head(i, loops[i].woke)
    /\ MonitorFrame

\* brain.remember returned in its thread: the sample is counted and the
\* loop goes to sleep.
LoopCount(i) ==
    /\ loops[i].pc = "thread"
    /\ mon' = [mon EXCEPT !.metrics_collected = @ + 1]
    /\ loops' = [loops EXCEPT ![i].pc = "sleeping", ![i].counted = @ + 1]
    /\ MonitorFrame

\* asyncio.sleep(self.monitoring_interval) is over.
LoopWake(i) ==
    /\ loops[i].pc = "sleeping"
    /\ loop_head(i, loops[i].woke + 1)
    /\ MonitorFrame

LoopStep(i) == LoopBegin(i) \/ LoopCount(i) \/ LoopWake(i)

\* ---- Specification of the profile function: every sensor reading.
\* The reasoning core when a specification does not exercise it.
BrainUnused ==
    /\ claude_sdk_available = FALSE
    /\ ollama_available = FALSE
    /\ think = ThinkIdle

ProfileInit ==
    /\ sensor \in SensorReadings(0..MaxPercent)
    /\ BatteryInit
    /\ BrainUnused
    /\ StoreInit
    /\ RouterInit
    /\ MonitorInit
    /\ AuditInit
    /\ HooksInit
    /\ PortableInit
    /\ ClassInit
    /\ SchemaInit
    /\ ReviewerInit

ProfileNext ==
    \/ GetPerformanceProfile
    \/ SensorChange(0..MaxPercent)

SpecProfile == ProfileInit /\ [][ProfileNext]_vars

\* ---- Specification of the battery manager over time.
BatterySpecInit ==
    /\ sensor \in SensorReadings(BatteryLevels)
    /\ BatteryInit
    /\ BrainUnused
    /\ StoreInit
    /\ RouterInit
    /\ MonitorInit
    /\ AuditInit
    /\ HooksInit
    /\ PortableInit
    /\ ClassInit
    /\ SchemaInit
    /\ ReviewerInit

BatteryNext ==
    \/ Tick
    \/ SensorChange(BatteryLevels)
    \/ CheckAndAdapt

SpecBattery == BatterySpecInit /\ [][BatteryNext]_vars

\* The battery manager when a specification does not exercise it.
BatteryUnused ==
    /\ sensor = NoBattery
    /\ BatteryInit

\* ---- Specification of the battery manager with a long past: the manager
\* ---- has recorded 99 or 100 profile changes, one every minute, between
\* ---- PERFORMANCE and ECO, and the last of them just now.
PastLengths == {HistoryLimit - 1, HistoryLimit}

PastProfiles == {"ECO"}

PastLevel(profile) ==
    CASE profile = "PERFORMANCE" -> 90
      [] profile = "BALANCED" -> 60
      [] profile = "ECO" -> 30
      [] profile = "CRITICAL" -> 10

PastHistory(n, low) ==
    [k \in 1..n |->
        LET profile == IF k % 2 = 1 THEN low ELSE "PERFORMANCE"
        IN  [timestamp |-> check_interval * k - check_interval * n,
             level |-> PastLevel(profile), profile |-> profile, plugged |-> FALSE]]

HistorySpecInit ==
    /\ now = 0
    /\ last_check = 0
    /\ \E n \in PastLengths, low \in PastProfiles :
          /\ battery_history = PastHistory(n, low)
          /\ current_profile = PastHistory(n, low)[n].profile
          /\ sensor = [battery |-> TRUE, percent |-> PastHistory(n, low)[n].level,
                       plugged |-> FALSE]
    /\ lastProfile = <<>>
    /\ lastCall = <<>>
    /\ trueCalls = <<>>
    /\ BrainUnused
    /\ StoreInit
    /\ RouterInit
    /\ MonitorInit
    /\ AuditInit
    /\ HooksInit
    /\ PortableInit
    /\ ClassInit
    /\ SchemaInit
    /\ ReviewerInit

SpecHistory == HistorySpecInit /\ [][BatteryNext]_vars

\* ---- Specifications of the persistent store.
AgentNames == {"BackendExpert", "DataEngineer"}
Importances == {"normal", "high"}
Metadatas == {None, Some(<<>>), Some(<<<<"lang", "fr">>, <<"tier", "claude">>>>)}
AgentFilters == {None} \cup {Some(a) : a \in AgentNames}

StoreSpecInit ==
    /\ StoreInit
    /\ RouterInit
    /\ MonitorInit
    /\ AuditInit
    /\ HooksInit
    /\ PortableInit
    /\ ClassInit
    /\ SchemaInit
    /\ ReviewerInit
    /\ BatteryUnused
    /\ BrainUnused

\* Writing and reading back consultations.
RoundTripLimits == {1, MaxConsultations}

RoundTripNext ==
    \/ /\ Len(consultations) < MaxConsultations
       /\ \E agent_name \in AgentNames, importance \in Importances, metadata \in Metadatas :
             RememberConsultation(agent_name, "How to index?", "Use a B-tree.",
                                  importance, metadata)
    \/ \E agent_name \in AgentFilters, limit \in RoundTripLimits :
          RecallConsultations(agent_name, limit, None)

SpecStoreRoundTrip == StoreSpecInit /\ [][RoundTripNext]_vars

\* Rows of different ages and the time window of the recalls.
WindowDays == {None, Some(30), Some(60)}
WindowLimits == {1, 10}

WindowNext ==
    \/ StoreTick
    \/ /\ Len(tasks) + Len(consultations) < MaxRows
       /\ \E agent_name \in AgentNames :
             RememberTask(agent_name, "optimization", "Tune the query",
                          Some("Index added"), "completed", None)
    \/ /\ Len(tasks) + Len(consultations) < MaxRows
       /\ \E agent_name \in AgentNames :
             RememberConsultation(agent_name, "How to index?", "Use a B-tree.", "normal", None)
    \/ \E agent_name \in AgentFilters, limit \in WindowLimits, days \in WindowDays :
          RecallTasks(agent_name, None, limit, days)
    \/ \E agent_name \in AgentFilters, limit \in WindowLimits, days \in WindowDays :
          RecallConsultations(agent_name, limit, days)

SpecStoreWindow == StoreSpecInit /\ [][WindowNext]_vars

\* Searching both tables.
SearchKeywords == {"optim", "OPTIM", "dbt_models", "index"}
SearchLimits == {1, 10}
SearchQueries == {"Optimization of dbt models", "Which index?"}
SearchDescriptions == {"optimize the dbt_models job", "Add an Index"}
SearchResults == {None, Some("Optimized.")}

SearchNext ==
    \/ StoreTick
    \/ /\ Len(tasks) + Len(consultations) < MaxRows
       /\ \E description \in SearchDescriptions, result \in SearchResults :
             RememberTask("DataEngineer", "optimization", description, result,
                          "completed", None)
    \/ /\ Len(tasks) + Len(consultations) < MaxRows
       /\ \E query \in SearchQueries :
             RememberConsultation("DataEngineer", query, "Use a B-tree.", "normal", None)
    \/ \E keyword \in SearchKeywords, limit \in SearchLimits : Search(keyword, limit)

SpecStoreSearch == StoreSpecInit /\ [][SearchNext]_vars

\* ---- Specification of the router.
RawNames ==
    {"backend", " Backend", "backend_expert", "data", "sre", "llm", " Foo ", "frontend"}
HistoryNames == {None, Some("")} \cup {Some(n) : n \in RawNames}
\* The agent_name arguments of consult() and consult_async().
ConsultNames == {"backend", " Backend", "backend_expert", " Foo "}
\* The (query, task_type) arguments of the consultations.
Consultations ==
    {<<"How to speed up Postgres?", None>>, <<"Fix the slow build", None>>,
     <<"How to speed up Postgres?", Some("audit")>>}
Responses == {"Add an index on the filter column."}

RouterSpecInit ==
    /\ RouterInit
    /\ MonitorInit
    /\ AuditInit
    /\ HooksInit
    /\ PortableInit
    /\ ClassInit
    /\ SchemaInit
    /\ ReviewerInit
    /\ StoreInit
    /\ BatteryUnused
    /\ BrainUnused

RouterNext ==
    \/ \E agent_name \in HistoryNames, in_loop \in BOOLEAN : GetHistory(agent_name, 7, in_loop)
    \/ GetStats
    \/ /\ Len(tasks) < MaxConsults
       /\ inflight = <<>>
       /\ \E via \in {"consult", "consult_async"}, agent_name \in ConsultNames,
             c \in Consultations, in_loop \in BOOLEAN :
             ConsultStart(via, agent_name, c[1], c[2], in_loop)
    \/ \E i \in DOMAIN inflight, response \in Responses : ConsultFinish(i, response)

SpecRouter == RouterSpecInit /\ [][RouterNext]_vars

\* ---- Specification of the main process with the agents of the repository:
\* ---- main() from construction to shutdown while the power state changes.
PortableSpecInit ==
    /\ sensor \in SensorReadings(BatteryLevels)
    /\ BatteryInit
    /\ BrainUnused
    /\ StoreInit
    /\ RouterInit
    /\ MonitorInit
    /\ AuditInit
    /\ HooksInit
    /\ ClassInit
    /\ PortableInit
    /\ SchemaInit
    /\ ReviewerInit

PortableNext ==
    \/ /\ stage \notin {"stopped", "crashed"}
       /\ SensorChange(BatteryLevels)
    \/ Initialize
    \/ StartProduction
    \/ Sleep
    \/ Heartbeat
    \/ Shutdown

SpecPortable == PortableSpecInit /\ [][PortableNext]_vars

\* ---- Specification of the main process holding agents whose stop() may
\* ---- raise.
FaultyKeys == {"monitor", "indexer"}

ShutdownSpecInit ==
    /\ sensor \in SensorReadings(BatteryLevels)
    /\ BatteryInit
    /\ BrainUnused
    /\ StoreInit
    /\ RouterInit
    /\ MonitorInit
    /\ AuditInit
    /\ HooksInit
    /\ ClassInit
    /\ PortableCreated
    /\ faulty \in SUBSET FaultyKeys
    /\ SchemaInit
    /\ ReviewerInit

SpecShutdown == ShutdownSpecInit /\ [][PortableNext]_vars

\* ---- Specification of the hook installer: any hooks directory, then
\* ---- installs and uninstalls in any order.
Absent == "<absent>"
HookContents == {"# JARVIS hook", "# my own hook", "# jarvis hook"}
BackupContents == {"# JARVIS hook", "# my own hook"}
OtherFile == "notes.py"
SourceHooks == {<<"# JARVIS hook v2", "# JARVIS hook v2", "# JARVIS hook v2">>}

HookNames == {hook_files[k] : k \in DOMAIN hook_files}
BackupNames == {with_suffix(name, ".py.backup") : name \in HookNames}

\* The directories the installer can find: each hook and each backup absent
\* or with some content, and a file of another name that holds the marker.
HookDirs ==
    LET options(name) == IF name \in HookNames THEN HookContents \cup {Absent}
                         ELSE IF name \in BackupNames THEN BackupContents \cup {Absent}
                         ELSE {"# JARVIS notes"}
        names == HookNames \cup BackupNames \cup {OtherFile}
        all == {f \in [names -> HookContents \cup BackupContents \cup
                                {Absent, "# JARVIS notes"}] :
                   \A name \in names : f[name] \in options(name)}
    IN  {[name \in {n \in names : f[n] # Absent} |-> f[name]] : f \in all}

HooksSpecInit ==
    /\ BatteryUnused
    /\ BrainUnused
    /\ StoreInit
    /\ RouterInit
    /\ MonitorInit
    /\ AuditInit
    /\ ClassInit
    /\ PortableInit
    /\ SchemaInit
    /\ ReviewerInit
    /\ claude_hooks_dir \in HookDirs
    /\ lastHookOp = <<>>
    /\ hookOrigin = claude_hooks_dir
    /\ hookRuns = <<>>

HooksNext ==
    \/ \E source \in SourceHooks : InstallHooks(source)
    \/ UninstallHooks

SpecHooks == HooksSpecInit /\ [][HooksNext]_vars

\* ---- Specification of the system audit: synchronous get_history() calls
\* ---- may load agents before the audit runs, and get_history() calls of
\* ---- other coroutines run while the audit waits for an agent.
AuditPreloads == {"devops", "backend", "dataengineer", "ai"}

AuditResponses == {"Add a Dockerfile.", "Keep SQLite."}

AuditNext ==
    \/ /\ audit.pc = "idle"
       /\ \E agent_name \in AuditPreloads : GetHistory(Some(agent_name), 7, FALSE)
    \/ /\ audit.pc = "awaiting"
       /\ \E agent_name \in AuditPreloads : GetHistory(Some(agent_name), 7, TRUE)
    \/ AuditBegin
    \/ AuditConsult
    \/ \E response \in AuditResponses : AuditResume(response)

SpecAudit == RouterSpecInit /\ [][AuditNext]_vars

\* ---- Specification of one monitor agent, with or without a brain, under
\* ---- any start() and stop() calls and any schedule of its loops.
MonitorSpecInit ==
    /\ mon \in [brain : BOOLEAN, running : {FALSE}, metrics_collected : {0}, stopped : {FALSE}]
    /\ loops = <<>>
    /\ sensor = NoBattery
    /\ BatteryInit
    /\ BrainUnused
    /\ StoreInit
    /\ RouterInit
    /\ AuditInit
    /\ HooksInit
    /\ PortableInit
    /\ ClassInit
    /\ SchemaInit
    /\ ReviewerInit

MonitorNext ==
    \/ MonitorStart
    \/ MonitorStop
    \/ \E i \in 1..MaxLoops : i \in DOMAIN loops /\ LoopBegin(i)
    \/ \E i \in 1..MaxLoops : i \in DOMAIN loops /\ LoopCount(i)
    \/ \E i \in 1..MaxLoops : i \in DOMAIN loops /\ LoopWake(i)

SpecMonitor == MonitorSpecInit /\ [][MonitorNext]_vars

\* The event loop runs every task that is ready.
SpecMonitorLive ==
    /\ MonitorSpecInit
    /\ [][MonitorNext]_vars
    /\ \A i \in 1..MaxLoops : WF_vars(i \in DOMAIN loops /\ LoopStep(i))

\* ---- Specification of the context of a consultation: tasks and
\* ---- consultations of an agent are stored over months, at most one row
\* ---- of a table on one day, and the context is retrieved for that agent
\* ---- and for one that was never consulted.
ContextTasks ==
    {[task_type |-> "audit", result |-> Some("Index tuned.")],
     [task_type |-> "optimization", result |-> None]}
ContextTypes == {t.task_type : t \in ContextTasks}
ContextQueries == {"How to tune the index?", "Et la?"}

ContextNext ==
    \/ ContextTick
    \/ /\ Len(tasks) + Len(consultations) < ContextMaxRows
       /\ \A i \in DOMAIN tasks : tasks[i].day # today
       /\ \E t \in ContextTasks :
             LogTask("BackendExpert", t.task_type, "Tune the query", t.result)
    \/ /\ Len(tasks) + Len(consultations) < ContextMaxRows
       /\ \A i \in DOMAIN consultations : consultations[i].day # today
       /\ RememberConsultation("BackendExpert", "How to index?", "Use a B-tree.",
                               "normal", None)
    \/ \E agent_name \in AgentNames, query \in ContextQueries : GetContext(agent_name, query)

SpecContext == StoreSpecInit /\ [][ContextNext]_vars

\* ---- Specification of the lifecycle of the router of the process: callers
\* ---- take it from get_instance(), as the module's helper functions do, and
\* ---- call it in any order.
LifecycleNames == {"backend", " Backend", "frontend", "llm"}
LifecycleHistory == {None} \cup {Some(name) : name \in LifecycleNames}

LifecycleNext ==
    \/ GetInstance
    \/ /\ ~instance.none
       /\ \E agent_name \in LifecycleHistory, in_loop \in BOOLEAN :
             GetHistory(agent_name, 7, in_loop)
    \/ /\ ~instance.none
       /\ GetStats
    \/ /\ ~instance.none
       /\ Len(tasks) < MaxConsults
       /\ inflight = <<>>
       /\ \E via \in {"consult", "consult_async"}, agent_name \in LifecycleNames,
             in_loop \in BOOLEAN :
             ConsultStart(via, agent_name, "Fix the slow build", None, in_loop)
    \/ \E i \in DOMAIN inflight, response \in Responses : ConsultFinish(i, response)

SpecLifecycle == RouterSpecInit /\ [][LifecycleNext]_vars

\* ---- Specification of interleaved consult_async() calls: agents are loaded by
\* ---- synchronous get_history() calls, then several coroutines are started
\* ---- under one event loop and resumed in any order.
InterleaveNames == {"backend", "data"}
InterleaveQueries ==
    {"How to speed up Postgres?", "Fix the slow build", "Audit the API", "Design a queue"}
InterleaveResponses == {"Add an index on the filter column.", "Use a cache."}

InterleaveNext ==
    \/ \E agent_name \in InterleaveNames, in_loop \in BOOLEAN :
          GetHistory(Some(agent_name), 7, in_loop)
    \/ /\ Len(inflight) < MaxInflight
       /\ Len(tasks) + Len(inflight) < MaxInterleaved
       /\ \E agent_name \in InterleaveNames, query \in InterleaveQueries :
             /\ \A i \in DOMAIN inflight : inflight[i].query # query
             /\ \A k \in DOMAIN tasks : tasks[k].description # query
             /\ ConsultStart("consult_async", agent_name, query, None, TRUE)
    \/ \E i \in DOMAIN inflight, response \in InterleaveResponses :
          ConsultFinish(i, response)

SpecInterleave == RouterSpecInit /\ [][InterleaveNext]_vars

\* ---- Specification of the task types of the consultations of one agent.
DetectQueries ==
    {"audit and optimize my database", "optimize the build", "design a fix",
     "fix: how to explain", "how to deploy", "hello there", "Review My Code",
     "What is the performance?"}
DetectTaskTypes == {None, Some("audit"), Some("migration")}

DetectNext ==
    \/ GetHistory(Some("backend"), 7, FALSE)
    \/ /\ Len(tasks) < MaxConsults
       /\ inflight = <<>>
       /\ \E via \in {"consult", "consult_async"}, query \in DetectQueries,
             task_type \in DetectTaskTypes :
             ConsultStart(via, "backend", query, task_type, via = "consult_async")
    \/ \E i \in DOMAIN inflight, response \in Responses : ConsultFinish(i, response)

SpecDetect == RouterSpecInit /\ [][DetectNext]_vars

\* ---- Specification of the code reviewer.
Codes ==
    {"", "pass", "x = 1  # set", "import os", "def f(): pass", "undefined",
     "class A:\n    x = 1", "function go() {}", "import os\nprint(os.name)",
     "import os\n\ndef cwd():\n    \"\"\"Where.\"\"\"\n    return os.getcwd()",
     "# sum\ndef add(a, b):\n    return a + b",
     "import sys  # args\nprint(sys.argv)", "x = 1\ny = 2  # two"}
Descriptions == {"Code review"}

ReviewerNext ==
    \E code \in Codes, description \in Descriptions : execute_task(code, description)

ReviewerSpecInit ==
    /\ ReviewerInit
    /\ BatteryUnused
    /\ BrainUnused
    /\ StoreInit
    /\ RouterInit
    /\ MonitorInit
    /\ AuditInit
    /\ HooksInit
    /\ PortableInit
    /\ ClassInit
    /\ SchemaInit

SpecReviewer == ReviewerSpecInit /\ [][ReviewerNext]_vars

\* ---- Specification of the store constructed again and again on one file.
SchemaSpecInit ==
    /\ schema = <<>>
    /\ lastOpen = <<>>
    /\ StoreInit
    /\ BatteryUnused
    /\ BrainUnused
    /\ ReviewerInit
    /\ RouterInit
    /\ MonitorInit
    /\ AuditInit
    /\ HooksInit
    /\ PortableInit
    /\ ClassInit

\* The writes go through a store object, so after a first construction.
SchemaNext ==
    \/ Construct
    \/ schema # <<>> /\ StoreTick
    \/ /\ schema # <<>>
       /\ Len(tasks) + Len(consultations) < MaxRows
       /\ \E agent_name \in AgentNames :
             RememberTask(agent_name, "optimization", "Tune the query",
                          Some("Index added"), "completed", None)
    \/ /\ schema # <<>>
       /\ Len(tasks) + Len(consultations) < MaxRows
       /\ \E agent_name \in AgentNames :
             RememberConsultation(agent_name, "How to index?", "Use a B-tree.", "normal", None)

SpecStoreSchema == SchemaSpecInit /\ [][SchemaNext]_vars

\* ---- Specification of the reasoning core.
BrainSpecInit ==
    /\ BrainInit
    /\ BatteryUnused
    /\ StoreInit
    /\ RouterInit
    /\ MonitorInit
    /\ AuditInit
    /\ HooksInit
    /\ PortableInit
    /\ ClassInit
    /\ SchemaInit
    /\ ReviewerInit

BrainNext ==
    \/ \E prompt \in Prompts : Think(prompt)
    \/ \E text \in ClaudeTexts : ClaudeAnswers(text)
    \/ ClaudeAnswersNothing
    \/ ClaudeFails
    \/ \E text \in OllamaTexts : OllamaAnswers(text)
    \/ OllamaFails
    \/ ThinkReturn

SpecBrain == BrainSpecInit /\ [][BrainNext]_vars

\* ------------------------------------------------------------------------
\* Claims about the battery manager
\* ------------------------------------------------------------------------

C2_Throttling ==
    /\ \A i, j \in DOMAIN trueCalls :
          i < j => trueCalls[j] - trueCalls[i] >= 60
    /\ \A i \in DOMAIN lastCall :
          LET c == lastCall[i]
          IN  (c.at - c.since < 60) => (~c.ret /\ c.after = c.before)

\* A change was reported, the reading changed again, and a second call inside
\* the window was refused.
C2_Witness ==
    /\ trueCalls # <<>>
    /\ lastCall # <<>>
    /\ lastCall[1].at > trueCalls[Len(trueCalls)]
    /\ lastCall[1].at - trueCalls[Len(trueCalls)] < 60
    /\ lastCall[1].sensed # lastCall[1].before
    /\ ~lastCall[1].ret

\* ------------------------------------------------------------------------
\* Claims about the reasoning core
\* ------------------------------------------------------------------------

\* C7: a prompt whose complexity score is 7 or more is routed to backend A
\* whenever backend A is available, and a prompt whose score is 6 or less is
\* routed to backend B whenever both backends are available.
C7_RoutingBoundary ==
    think.pc # "idle" =>
        /\ (think.complexity >= 7 /\ claude_sdk_available) =>
              (think.visited # <<>> /\ Head(think.visited) = "claude")
        /\ (think.complexity <= 6 /\ claude_sdk_available /\ ollama_available) =>
              (think.visited # <<>> /\ Head(think.visited) = "ollama")

\* A prompt scoring exactly 7 went to backend A although backend B was there.
C7_Witness ==
    /\ think.pc = "claude"
    /\ think.complexity = 7
    /\ ollama_available
    /\ think.visited = <<"claude">>

TierRank(t) == CASE t = "claude" -> 1 [] t = "ollama" -> 2 [] t = "local" -> 3

\* C8: whatever the availability and the failures of the backends, think()
\* returns a text and propagates no backend exception; a failure of backend A
\* falls to backend B if B is available and to the local template otherwise, a
\* failure of backend B falls to the local template, and the chain visits
\* each tier at most once, in the order A, B, local.
C8_FallbackChain ==
    /\ think.pc \in {"idle", "claude", "ollama", "done"}
    /\ \A i, j \in DOMAIN think.visited :
          i < j => TierRank(think.visited[i]) < TierRank(think.visited[j])
    /\ \A i \in DOMAIN think.visited :
          i < Len(think.visited) =>
              /\ \E k \in DOMAIN think.failed : think.failed[k] = think.visited[i]
              /\ think.visited[i] = "claude" =>
                    think.visited[i + 1] = (IF ollama_available THEN "ollama" ELSE "local")
              /\ think.visited[i] = "ollama" => think.visited[i + 1] = "local"
    /\ \A k \in DOMAIN think.failed :
          /\ think.failed[k] # "local"
          /\ \E i \in DOMAIN think.visited :
                i < Len(think.visited) /\ think.visited[i] = think.failed[k]
    /\ (think.pc = "done" /\ think.visited[Len(think.visited)] = "local") =>
          think.response = think_local(think.prompt)
    /\ think.pc \in {"claude", "ollama"} => think.visited[Len(think.visited)] = think.pc

\* Both backends failed in turn and the local template answered.
C8_Witness ==
    /\ think.pc = "done"
    /\ think.visited = <<"claude", "ollama", "local">>
    /\ think.failed = <<"claude", "ollama">>
    /\ think.response = think_local(think.prompt)

\* C9: a consultation written with remember_consultation(a, q, r, importance=i,
\* metadata=m) is returned by recall_consultations(agent_name=a, limit=n), n at
\* least the number of a's records, with agent a, query q, response r,
\* importance i, metadata equal to m (the empty dictionary when m was None)
\* and an ISO-8601 timestamp.
Digits == {"0", "1", "2", "3", "4", "5", "6", "7", "8", "9"}
IsIso8601(ts) ==
    /\ Len(ts) = 26
    /\ \A i \in 1..26 :
          CharAt(ts, i) \in (CASE i \in {5, 8} -> {"-"}
                               [] i = 11 -> {"T"}
                               [] i \in {14, 17} -> {":"}
                               [] i = 20 -> {"."}
                               [] OTHER -> Digits)

WrittenBy(a) == {i \in DOMAIN written : written[i].agent_name = a}

C9_RoundTrip ==
    \A k \in DOMAIN lastRecall :
        LET call == lastRecall[k]
        IN  (/\ call.op = "recall_consultations"
             /\ ~call.agent_name.none
             /\ call.days.none
             /\ call.limit >= Cardinality(WrittenBy(call.agent_name.v)))
            => /\ Len(call.result) = Cardinality(WrittenBy(call.agent_name.v))
               /\ \A i \in WrittenBy(call.agent_name.v) :
                     \E j \in DOMAIN call.result :
                         LET r == call.result[j]
                             w == written[i]
                         IN  /\ r.id = i
                             /\ r.agent = w.agent_name
                             /\ r.query = w.query
                             /\ r.response = w.response
                             /\ r.importance = w.importance
                             /\ r.metadata = (IF w.metadata.none THEN Some(<<>>)
                                              ELSE w.metadata)
                             /\ IsIso8601(r.timestamp)

C9_Witness ==
    /\ Len(lastRecall) = 1
    /\ lastRecall[1].op = "recall_consultations"
    /\ ~lastRecall[1].agent_name.none
    /\ Len(lastRecall[1].result) = 2
    /\ \E i, j \in WrittenBy(lastRecall[1].agent_name.v) :
          /\ written[i].metadata.none
          /\ ~written[j].metadata.none
          /\ Len(written[j].metadata.v) = 2

\* C10: recall_tasks(days=N) and recall_consultations(days=N) return only
\* rows written strictly later than N days before the call, newest first and
\* at most `limit` of them, and leave out no such row unless the limit is
\* spent on rows at least as new; a row 40 days old is absent for days=30
\* and, the limit allowing, present for days=60; days=None filters nothing
\* by time.
RecallTable(call) == IF call.op = "recall_tasks" THEN tasks ELSE consultations

Matching(call) ==
    {i \in DOMAIN RecallTable(call) :
        /\ call.agent_name.none \/ RecallTable(call)[i].agent_name = call.agent_name.v
        /\ call.days.none \/ RecallTable(call)[i].day > today - call.days.v}

C10_TimeWindow ==
    \A k \in DOMAIN lastRecall :
        LET call == lastRecall[k]
            table == RecallTable(call)
            ids == {call.result[j].id : j \in DOMAIN call.result}
        IN  /\ ids \subseteq Matching(call)
            /\ Len(call.result) = Min(call.limit, Cardinality(Matching(call)))
            /\ Cardinality(ids) = Len(call.result)
            /\ \A i, j \in DOMAIN call.result :
                  i < j => table[call.result[i].id].day >= table[call.result[j].id].day
            /\ \A i \in Matching(call) \ ids :
                  \A j \in ids : table[j].day >= table[i].day
            /\ \A i \in DOMAIN table :
                  today - table[i].day = 40 =>
                      /\ call.days = Some(30) => i \notin ids
                      /\ (/\ call.days = Some(60)
                          /\ call.agent_name.none
                          /\ Len(table) <= call.limit) => i \in ids

C10_Witness ==
    /\ Len(lastRecall) = 1
    /\ lastRecall[1].op = "recall_tasks"
    /\ lastRecall[1].days = Some(30)
    /\ Len(lastRecall[1].result) = 1
    /\ Len(tasks) = 2
    /\ today - tasks[1].day = 40
    /\ lastRecall[1].result[1].id = 2

\* C3: all aliases of one alias set, in any letter case and with surrounding
\* whitespace, resolve to one and the same agent instance, so a router never
\* holds more than four expert agent instances.
AliasSets == {DataAliases, BackendAliases, DevOpsAliases, AIAliases}

C3_OneInstancePerAliasSet ==
    /\ \A S \in AliasSets :
          \A k1, k2 \in S \cap DOMAIN agents : agents[k1] = agents[k2]
    /\ Cardinality(DOMAIN instances) <= 4

\* C4 (as stated): looking up a name in none of the alias sets raises the
\* Invalid-Input error whose message names exactly the string the caller
\* passed.
C4_NamesExactInput ==
    \A k \in DOMAIN lastOp :
        lastOp[k].lookup = "ValueError" =>
            lastOp[k].error = "Unknown agent: " \o lastOp[k].agent_name.v
                              \o ". Available: dataengineer, backend, devops, ai"

\* C4 (amended): looking up a name in none of the alias sets raises the
\* Invalid-Input error whose message names the lower-cased, whitespace-trimmed
\* form of the input and lists the four valid keys; the failed lookup creates,
\* starts and caches no agent and logs no task, and consult, consult_async
\* and get_history end with that error.
UnknownNames == (" Foo " :> "foo") @@ ("frontend" :> "frontend")

C4_UnknownAgent ==
    \A k \in DOMAIN lastOp :
        LET op == lastOp[k]
            looked_up == \/ op.op = "get_history" /\ ~Falsy(op.agent_name)
                         \/ op.op = "consult_async"
                         \/ op.op = "consult" /\ ~op.in_loop
        IN  /\ (looked_up /\ op.agent_name.v \in DOMAIN UnknownNames)
                  => op.lookup = "ValueError"
            /\ op.lookup = "ValueError" =>
                  /\ op.agent_name.v \in DOMAIN UnknownNames
                  /\ op.error = "Unknown agent: " \o UnknownNames[op.agent_name.v]
                                \o ". Available: dataengineer, backend, devops, ai"
                  /\ op.outcome = "ValueError"
                  /\ op.constructed = ""
                  /\ agents = op.before.agents
                  /\ instances = op.before.instances
                  /\ working_memory = op.before.working_memory
                  /\ Len(tasks) = op.before.tasks
                  /\ inflight = op.before.inflight

C4_Witness ==
    /\ Len(lastOp) = 1
    /\ lastOp[1].op = "consult"
    /\ lastOp[1].agent_name = Some(" Foo ")
    /\ lastOp[1].outcome = "ValueError"
    /\ DOMAIN agents # {}

\* C5: on a router that has not loaded the agent for the key yet,
\* consult_async("backend", q) awaited in a running event loop, and likewise
\* consult("backend", q), runs to completion, returns a non-empty response and
\* adds exactly one tasks row for BackendExpert with the auto-detected task
\* type of q and a non-empty result.
C5_FirstConsultCompletes ==
    \A k \in DOMAIN lastOp :
        LET op == lastOp[k]
        IN  (/\ \/ op.op = "consult_async"
                \/ op.op = "consult" /\ ~op.in_loop
             /\ op.agent_name = Some("backend")
             /\ "backend" \notin DOMAIN op.before.agents)
            => /\ op.outcome = "returned"
               /\ Len(op.result) > 0
               /\ Len(tasks) = op.before.tasks + 1
               /\ tasks[Len(tasks)].agent_name = "BackendExpert"
               /\ tasks[Len(tasks)].task_type = detect_task_type(op.query)
               /\ ~Falsy(tasks[Len(tasks)].result)

\* C6: every completed router consultation creates exactly one consultation
\* record (agent name, query, response), so that get_history() for that agent
\* then returns it and get_stats().consultations_count has grown by one.
C6_ConsultationRecorded ==
    \A k \in DOMAIN lastOp :
        LET op == lastOp[k]
            name == AgentFor(normalize(op.agent_name.v))
        IN  (op.op \in {"consult", "consult_async"} /\ op.outcome = "returned")
            => /\ Len(consultations) = op.before.consultations + 1
               /\ get_stats.consultations_count = op.before.consultations + 1
               /\ \A history \in recall_consultations(Some(name), HistoryLimit20, Some(7)) :
                     \E j \in DOMAIN history :
                         /\ history[j].agent = name
                         /\ history[j].query = op.query
                         /\ history[j].response = op.result

\* C11: search(keyword, limit) returns the consultations whose query or
\* response, and the tasks whose description or result, contain the keyword
\* as a substring without regard to letter case, and only those; each hit
\* carries its type, there are at most `limit` hits, newest first across
\* both tables.
ContainsFolded(text, keyword) == Contains(lower(text), lower(keyword))

Hits(keyword) ==
    {<<"consultation", i>> : i \in {j \in DOMAIN consultations :
        \/ ContainsFolded(consultations[j].query, keyword)
        \/ ContainsFolded(consultations[j].response, keyword)}}
    \cup
    {<<"task", i>> : i \in {j \in DOMAIN tasks :
        \/ ContainsFolded(tasks[j].description, keyword)
        \/ ~tasks[j].result.none /\ ContainsFolded(tasks[j].result.v, keyword)}}

C11_SearchBySubstring ==
    \A k \in DOMAIN lastRecall :
        lastRecall[k].op = "search" =>
            LET result == lastRecall[k].result
                found == {<<result[j].type, result[j].id>> : j \in DOMAIN result}
                hits == Hits(lastRecall[k].keyword)
            IN  /\ found \subseteq hits
                /\ Len(result) = Min(lastRecall[k].limit, Cardinality(hits))
                /\ Cardinality(found) = Len(result)
                /\ \A i, j \in DOMAIN result :
                      i < j => ~TextLess(result[i].timestamp, result[j].timestamp)

\* C12: the task type of a consultation is the one the caller supplied,
\* unchanged; without one it is the first of the buckets audit, optimization,
\* design, debugging, consultation that has a keyword in the lower-cased
\* query ("audit and optimize my database" is audit), and general when no
\* bucket has one.
FirstBucket ==
    ("audit and optimize my database" :> "audit")
    @@ ("optimize the build" :> "optimization")
    @@ ("design a fix" :> "design")
    @@ ("fix: how to explain" :> "debugging")
    @@ ("how to deploy" :> "consultation")
    @@ ("hello there" :> "general")
    @@ ("Review My Code" :> "audit")
    @@ ("What is the performance?" :> "optimization")

C12_TaskTypePrecedence ==
    \A k \in DOMAIN lastOp :
        LET op == lastOp[k]
        IN  (op.op \in {"consult", "consult_async"} /\ op.outcome = "returned")
            => /\ Len(tasks) = op.before.tasks + 1
               /\ tasks[Len(tasks)].description = op.query
               /\ tasks[Len(tasks)].task_type =
                     (IF op.task_type.none THEN FirstBucket[op.query]
                      ELSE op.task_type.v)

C12_Witness ==
    /\ Len(lastOp) = 1
    /\ lastOp[1].outcome = "returned"
    /\ lastOp[1].query = "audit and optimize my database"
    /\ lastOp[1].task_type.none
    /\ Len(tasks) = 1
    /\ tasks[1].task_type = "audit"

\* C13: the review of a code scores 70 less 10 when the code has fewer than
\* 10 characters, less 10 when it has none of def, function, class, less 5
\* when it has neither "# " nor a docstring marker, less 5 when it has no
\* import, and never less than 0; the issues are one per penalty, and the
\* code is approved exactly when the score is at least 60 ("pass" scores 40
\* and is not approved, a code with no penalty scores 70 and is approved).
Penalties ==
    ("" :> <<10, 10, 5, 5>>)
    @@ ("pass" :> <<10, 10, 5, 5>>)
    @@ ("x = 1  # set" :> <<0, 10, 0, 5>>)
    @@ ("import os" :> <<10, 10, 5, 0>>)
    @@ ("def f(): pass" :> <<0, 0, 5, 5>>)
    @@ ("undefined" :> <<10, 0, 5, 5>>)
    @@ ("class A:\n    x = 1" :> <<0, 0, 5, 5>>)
    @@ ("function go() {}" :> <<0, 0, 5, 5>>)
    @@ ("import os\nprint(os.name)" :> <<0, 10, 5, 0>>)
    @@ ("import os\n\ndef cwd():\n    \"\"\"Where.\"\"\"\n    return os.getcwd()"
            :> <<0, 0, 0, 0>>)
    @@ ("# sum\ndef add(a, b):\n    return a + b" :> <<0, 0, 0, 5>>)
    @@ ("import sys  # args\nprint(sys.argv)" :> <<0, 10, 0, 0>>)
    @@ ("x = 1\ny = 2  # two" :> <<0, 10, 0, 5>>)

C13_ReviewScore ==
    \A k \in DOMAIN lastReview :
        LET p == Penalties[lastReview[k].code]
            result == lastReview[k].result
            expected == 70 - p[1] - p[2] - p[3] - p[4]
        IN  /\ result.score = (IF expected < 0 THEN 0 ELSE expected)
            /\ Len(result.issues) = Cardinality({i \in 1..4 : p[i] > 0})
            /\ result.approved = (result.score >= 60)
            /\ lastReview[k].code = "pass" => result.score = 40 /\ ~result.approved
            /\ expected = 70 => result.approved

C13_Witness ==
    /\ Len(lastReview) = 1
    /\ lastReview[1].code = "x = 1  # set"
    /\ lastReview[1].result.score = 55
    /\ reviews_completed = 2

\* C14: constructing the store again on a file that already holds one raises
\* no error, leaves the file with each table and index once, and leaves every
\* consultation and task row, and so both row counts, as they were.
C14_IdempotentSchema ==
    [][lastOpen' # lastOpen =>
          /\ ~lastOpen'[1].error
          /\ \A i, j \in DOMAIN schema' : schema'[i] = schema'[j] => i = j
          /\ {schema'[i] : i \in DOMAIN schema'}
                = {"consultations", "tasks", "idx_consultations_agent",
                   "idx_consultations_timestamp", "idx_tasks_agent",
                   "idx_tasks_timestamp", "idx_tasks_type"}
          /\ schema # <<>> => schema' = schema
          /\ consultations' = consultations
          /\ tasks' = tasks]_vars

C14_Witness ==
    /\ Len(lastOpen) = 1
    /\ lastOpen[1].before.schema # <<>>
    /\ Len(consultations) = 1
    /\ Len(tasks) = 1


\* The position of a step in the trace of a coroutine, 0 when it did not happen.
Pos(events, e) ==
    IF \E i \in DOMAIN events : events[i] = e
    THEN CHOOSE i \in DOMAIN events : events[i] = e /\ \A j \in 1..(i - 1) : events[j] # e
    ELSE 0

C16_Lifecycle ==
    /\ ~initialized /\ constructions = 0 /\ DOMAIN agents = {} /\ DOMAIN instances = {}
    /\ [](/\ constructions <= 1
          /\ initialized <=> constructions = 1
          /\ DOMAIN agents # {} => initialized
          /\ routers <= 1
          /\ instance.none <=> routers = 0
          /\ (lastOp # <<>> /\ lastOp[1].op = "get_instance") =>
                /\ instance = Some(lastOp[1].result)
                /\ ~lastOp[1].before.instance.none =>
                      lastOp[1].before.instance = instance)
    /\ [][/\ initialized => initialized'
          /\ constructions' >= constructions
          /\ ~instance.none => instance' = instance
          /\ \A key \in DOMAIN agents :
                /\ key \in DOMAIN agents'
                /\ agents'[key] = agents[key]
                /\ agents[key] \in DOMAIN instances'
                /\ instances'[agents[key]] = instances[agents[key]]]_vars

\* get_instance() is called again on a router that is initialized and holds
\* an agent, after a consultation was logged.
C16_Witness ==
    /\ lastOp # <<>> /\ lastOp[1].op = "get_instance"
    /\ ~lastOp[1].before.instance.none
    /\ initialized
    /\ DOMAIN agents # {}
    /\ Len(tasks) > 0

\* The active-agent count of a profile.
ActiveCount(profile) ==
    CASE profile = "PERFORMANCE" -> 9
      [] profile = "BALANCED" -> 5
      [] profile = "ECO" -> 2
      [] profile = "CRITICAL" -> 1

\* The fixed order: Monitor, Memory Indexer, Learning Agent, Coder, Code
\* Reviewer, Backend Expert, Data Engineer, DevOps/SRE, AI Engineer.
RosterOrder ==
    <<"NetworkMonitorAgent", "MemoryIndexerAgent", "LearningAgent", "CoderAgent",
      "CodeReviewerAgent", "BackendExpertAgent", "DataEngineerAgent", "DevOpsSREAgent",
      "AIEngineerAgent">>

\* C17: after initialize() under a sensor reading whose profile is P, the
\* agents constructed are exactly the first n of the fixed order, n being the
\* active-agent count of P, each constructed once and held; the Monitor is
\* always among them.
C17_BootstrapRoster ==
    (lastStep # <<>> /\ lastStep[1].op = "initialize") =>
        LET n == ActiveCount(get_performance_profile(lastStep[1].status))
        IN  /\ Len(portable_agents) = n
            /\ \A i \in 1..n : portable_objects[portable_agents[i]].class = RosterOrder[i]
            /\ \A i, j \in 1..n : portable_agents[i] = portable_agents[j] => i = j
            /\ DOMAIN portable_objects = Range(portable_agents)
            /\ portable_agents[1] = "monitor"
            /\ lastStep[1].before.agents = <<>>

\* initialize() ran on battery at a charge of the ECO band and constructed
\* two agents.
C17_Witness ==
    /\ lastStep # <<>> /\ lastStep[1].op = "initialize"
    /\ lastStep[1].status.present /\ ~lastStep[1].status.plugged
    /\ lastStep[1].status.percent = 30
    /\ Len(portable_agents) = 2

\* C18: _adapt_to_profile under CRITICAL calls stop() exactly once on every
\* agent held except the Monitor and removes it, leaving exactly the Monitor
\* held, still running and never stopped; under any other profile it leaves
\* the agents held, and the agent objects, as they were.
C18_AdaptToCritical ==
    (lastStep # <<>> /\ lastStep[1].op = "adapt") =>
        LET before == lastStep[1].before
        IN  IF lastStep[1].profile = "CRITICAL"
            THEN /\ portable_agents = <<"monitor">>
                 /\ portable_objects["monitor"].running
                 /\ portable_objects["monitor"].stops = 0
                 /\ \A key \in DOMAIN portable_objects \ {"monitor"} :
                       /\ portable_objects[key].stops = 1
                       /\ ~portable_objects[key].running
                 /\ ~lastStep[1].raised
            ELSE /\ portable_agents = before.agents
                 /\ portable_objects = before.objects

\* The process held the nine agents when the profile became CRITICAL.
C18_Witness ==
    /\ lastStep # <<>> /\ lastStep[1].op = "adapt"
    /\ lastStep[1].profile = "CRITICAL"
    /\ Len(lastStep[1].before.agents) = 9
    /\ \A key \in Range(lastStep[1].before.agents) : lastStep[1].before.objects[key].running

\* C19: shutdown() clears running and calls stop() on every agent held; a
\* stop() that raises is caught, stop() is still called on every other
\* agent, the brain is closed, and nothing leaves shutdown().
C19_ShutdownIsolation ==
    (lastStep # <<>> /\ lastStep[1].op = "shutdown") =>
        LET before == lastStep[1].before
        IN  /\ ~portable_running
            /\ \A key \in Range(before.agents) :
                  /\ portable_objects[key].stops = before.objects[key].stops + 1
                  /\ key \notin faulty => ~portable_objects[key].running
            /\ \A key \in DOMAIN portable_objects \ Range(before.agents) :
                  portable_objects[key] = before.objects[key]
            /\ before.brain = "open" /\ portable_brain = "closed"
            /\ ~lastStep[1].raised
            /\ stage = "stopped"

\* shutdown() ran while the second of five agents held had a stop() that
\* raises.
C19_Witness ==
    /\ lastStep # <<>> /\ lastStep[1].op = "shutdown"
    /\ faulty = {"indexer"}
    /\ Len(lastStep[1].before.agents) = 5
    /\ portable_objects["indexer"].running
    /\ portable_objects["reviewer"].stops = 1

\* The marker of a hook the assistant installed.
Marker == "JARVIS"

\* C20: uninstall_hooks() removes or replaces a file of the hooks directory
\* only if it has one of the three hook names and its content contains the
\* marker; a hook file without the marker keeps its existence and content,
\* and so does every file of another name, the backups included.
C20_UninstallOnlyMarked ==
    (lastHookOp # <<>> /\ lastHookOp[1].op = "uninstall") =>
        LET before == lastHookOp[1].before
            kept(name) == name \in DOMAIN claude_hooks_dir /\
                          claude_hooks_dir[name] = before[name]
        IN  /\ \A name \in DOMAIN before :
                  ~kept(name) => name \in HookNames /\ Contains(before[name], Marker)
            /\ \A name \in DOMAIN before \cap HookNames :
                  ~Contains(before[name], Marker) => kept(name)
            /\ \A name \in DOMAIN before \ HookNames : kept(name)
            /\ \A name \in DOMAIN claude_hooks_dir : name \in DOMAIN before

\* An uninstall found one hook with the marker, one with the marker in lower
\* case and one that is the user's own, with backups beside them: the first
\* was replaced by its backup, the others stay.
C20_Witness ==
    /\ lastHookOp # <<>> /\ lastHookOp[1].op = "uninstall"
    /\ LET before == lastHookOp[1].before
       IN  /\ HookNames \cup BackupNames \cup {OtherFile} \subseteq DOMAIN before
           /\ before["user-prompt-submit.py"] = "# JARVIS hook"
           /\ before["post-tool-use.py"] = "# jarvis hook"
           /\ before["session-end.py"] = "# my own hook"
           /\ before["user-prompt-submit.py.backup"] = "# my own hook"
           /\ claude_hooks_dir["user-prompt-submit.py"] = "# my own hook"

\* C21: a hook file that exists before the first install_hooks() holds its
\* original content again after n >= 1 install_hooks() runs followed by
\* uninstall_hooks().
C21_BackupRoundTrip ==
    (/\ Len(hookRuns) >= 2
     /\ hookRuns[Len(hookRuns)] = "uninstall"
     /\ \A k \in 1..(Len(hookRuns) - 1) : hookRuns[k] = "install") =>
        \A name \in HookNames \cap DOMAIN hookOrigin :
            /\ name \in DOMAIN claude_hooks_dir
            /\ claude_hooks_dir[name] = hookOrigin[name]

\* The same for one install_hooks() run only.
C21_SingleInstallRoundTrip ==
    hookRuns = <<"install", "uninstall">> =>
        \A name \in HookNames \cap DOMAIN hookOrigin :
            /\ name \in DOMAIN claude_hooks_dir
            /\ claude_hooks_dir[name] = hookOrigin[name]

\* The order of the audit: devops, backend, dataengineer, ai.
AuditOrder == <<"devops", "backend", "dataengineer", "ai">>

\* What the audit does when all four consultations return.
AuditTrace ==
    <<<<"start", "devops">>, <<"return", "devops">>,
      <<"start", "backend">>, <<"return", "backend">>,
      <<"start", "dataengineer">>, <<"return", "dataengineer">>,
      <<"start", "ai">>, <<"return", "ai">>, <<"report", "">>>>

C22_RaisedWitness ==
    /\ audit.pc = "raised"
    /\ Len(audit.results) = 2
    /\ report = None

\* C23 as stated: a check_and_adapt() call that returns False leaves
\* current_profile, battery_history and last_check as they were, whether
\* it was throttled or not.
C23_FalseNoEffects ==
    \A i \in DOMAIN lastCall :
        LET c == lastCall[i]
        IN  ~c.ret => /\ current_profile = c.before
                      /\ battery_history = c.history_before
                      /\ last_check = c.since

\* C23, amended: a check_and_adapt() call that returns False leaves
\* current_profile and battery_history as they were; a throttled call (less
\* than 60 seconds after last_check) leaves last_check as it was, and a call
\* that is not throttled and finds the profile unchanged moves last_check to
\* the time of the call.
C23_FalseEffects ==
    \A i \in DOMAIN lastCall :
        LET c == lastCall[i]
        IN  ~c.ret => /\ current_profile = c.before
                      /\ battery_history = c.history_before
                      /\ c.throttled <=> (c.at - c.since < check_interval)
                      /\ c.throttled => last_check = c.since
                      /\ ~c.throttled => /\ last_check = c.at
                                         /\ c.sensed = c.before
                                         /\ last_check # c.since

\* A call that was not throttled found the profile unchanged and returned
\* False.
C23_Witness ==
    /\ lastCall # <<>>
    /\ ~lastCall[1].ret
    /\ ~lastCall[1].throttled
    /\ last_check = lastCall[1].at
    /\ last_check > lastCall[1].since

\* A throttled call returned False while the sensor asked for another
\* profile.
C23_ThrottledWitness ==
    /\ lastCall # <<>>
    /\ ~lastCall[1].ret
    /\ lastCall[1].throttled
    /\ lastCall[1].sensed # lastCall[1].before
    /\ last_check = lastCall[1].since

\* C24: battery_history never holds more than 100 entries; a change recorded
\* when it holds 100 drops the oldest entry and keeps the newest 100, the
\* new one last, in the order in which they were recorded.
C24_HistoryBound ==
    /\ Len(battery_history) <= 100
    /\ \A k \in 1..(Len(battery_history) - 1) :
          battery_history[k].timestamp < battery_history[k + 1].timestamp
    /\ \A i \in DOMAIN lastCall :
          LET c == lastCall[i]
              n == Len(battery_history)
              recorded == Append(c.history_before, battery_history[n])
          IN  c.ret =>
                /\ n = (IF Len(recorded) > 100 THEN 100 ELSE Len(recorded))
                /\ battery_history[n].timestamp = c.at
                /\ battery_history[n].profile = c.after
                /\ \A k \in 1..n :
                      battery_history[k] = recorded[Len(recorded) - n + k]

\* A change was recorded when the history held 100 entries: the oldest is
\* gone and the second oldest is now the first.
C24_Witness ==
    /\ lastCall # <<>>
    /\ lastCall[1].ret
    /\ Len(lastCall[1].history_before) = 100
    /\ Len(battery_history) = 100
    /\ battery_history[1] = lastCall[1].history_before[2]
    /\ battery_history[100].timestamp = now

\* Every loop of the monitor has ended.
AllDone == \A i \in DOMAIN loops : loops[i].pc = "done"

\* C25: after stop() on a started monitor, with no start() after it, each
\* background loop ends at its next wake-up from sleep: it counts at most
\* one more sample (the one it was storing when stop() was called), it is
\* over as soon as it has woken up once, a loop that is over stays over and
\* metrics_collected no longer changes once the loops are over; and when the
\* event loop keeps running the tasks, the loops do end.
C25_MonitorStop ==
    /\ [](mon.stopped =>
            \A i \in DOMAIN loops :
                /\ loops[i].counted <= 1
                /\ loops[i].woke <= 1
                /\ loops[i].woke = 1 => loops[i].pc = "done"
                /\ loops[i].pc = "sleeping" => mon.metrics_collected > 0)
    /\ [][/\ \A i \in DOMAIN loops : loops[i].pc = "done" => loops'[i].pc = "done"
          /\ (mon.stopped /\ AllDone) => mon'.metrics_collected = mon.metrics_collected]_vars
    /\ (<>[](mon.stopped) => <>[](mon.stopped /\ AllDone))

\* stop() came while a loop was storing a sample: the loop counted that
\* sample, slept, woke up once and ended.
C25_Witness ==
    /\ mon.stopped
    /\ ~mon.running
    /\ Len(loops) = 1
    /\ loops[1].pc = "done"
    /\ loops[1].counted = 1
    /\ loops[1].woke = 1
    /\ mon.metrics_collected = 2

\* The loops of the monitor that have not ended.
ActiveLoops == {i \in DOMAIN loops : loops[i].pc # "done"}

\* C29: at most one background loop of a monitor agent is active at any
\* time, whatever the start() and stop() calls and the schedule of the
\* loops.
C29_SingleLoop == Cardinality(ActiveLoops) <= 1

\* C29 in the program's own use, where start() is called once: one loop.
C29_StartedOnce == Len(loops) <= 1 => Cardinality(ActiveLoops) <= 1

\* The score of a prompt for a set of complex and a set of simple keywords:
\* clamp(5 + [len > 200] + [len > 500] + min(3, complex keywords contained)
\* - 2 * [some simple keyword contained], 0, 10), on the lower-cased prompt.
Score(prompt, complex, simple) ==
    LET text == lower(prompt)
        found == {kw \in complex : Contains(text, kw)}
        raw == 5 + (IF Len(prompt) > 200 THEN 1 ELSE 0)
                 + (IF Len(prompt) > 500 THEN 1 ELSE 0)
                 + (IF Cardinality(found) > 3 THEN 3 ELSE Cardinality(found))
                 - (IF \E kw \in simple : Contains(text, kw) THEN 2 ELSE 0)
    IN  IF raw < 0 THEN 0 ELSE IF raw > 10 THEN 10 ELSE raw

SimpleKeywords == {"hello", "bonjour", "what is", "qui est"}

\* C26 as stated: the complex keywords are why, how, analyze, architecture,
\* implement, explain, pourquoi, comment.
C26_ScoreWithAnalyze ==
    think.pc # "idle" =>
        think.complexity =
            Score(think.prompt,
                  {"why", "how", "analyze", "architecture", "implement", "explain",
                   "pourquoi", "comment"},
                  SimpleKeywords)

\* C26, amended: the complexity of a prompt is clamp(5 + [len > 200] +
\* [len > 500] + min(3, number of distinct complex keywords contained) -
\* 2 * [some simple keyword contained], 0, 10), an integer in 0..10, with
\* complex keywords why, how, analyse, architecture, implement, explain,
\* pourquoi, comment and simple keywords hello, bonjour, what is, qui est,
\* all matched as substrings of the lower-cased prompt.
C26_Score ==
    think.pc # "idle" =>
        /\ think.complexity \in 0..10
        /\ think.complexity =
              Score(think.prompt,
                    {"why", "how", "analyse", "architecture", "implement", "explain",
                     "pourquoi", "comment"},
                    SimpleKeywords)

\* A prompt with the keyword analyse next to comment and bonjour scored 5,
\* and a prompt with analyze and no keyword scored 5 as well.
C26_Witness ==
    /\ think.pc # "idle"
    /\ think.prompt = "Bonjour, comment analyser ce module ?"
    /\ think.complexity = 5

\* The keyword count is capped: five complex keywords in a long prompt
\* score 10.
C26_CapWitness ==
    /\ think.pc # "idle"
    /\ think.prompt = "Explain how to implement the architecture" \o Filler(501)
    /\ think.complexity = 10

\* The monitoring interval configured for the profile of a battery status.
IntervalFor(status) ==
    CASE get_performance_profile(status) = "PERFORMANCE" -> 60
      [] get_performance_profile(status) = "BALANCED" -> 120
      [] get_performance_profile(status) = "ECO" -> 300
      [] get_performance_profile(status) = "CRITICAL" -> 600

\* C27: after initialize() and after every completed heartbeat of
\* run_forever(), the monitor's monitoring_interval is the interval
\* configured for the profile of the sensor reading taken in that step.
C27_IntervalTracksProfile ==
    \A i \in DOMAIN lastStep :
        (lastStep[i].op \in {"initialize", "heartbeat", "adapt"} /\ ~lastStep[i].raised)
            => monitoring_interval = IntervalFor(lastStep[i].status)

\* C27 for initialize() alone, and for the heartbeats in which
\* check_and_adapt() returned True.
C27_AfterInitializeOrChange ==
    \A i \in DOMAIN lastStep :
        (lastStep[i].op \in {"initialize", "adapt"} /\ ~lastStep[i].raised)
            => monitoring_interval = IntervalFor(lastStep[i].status)

\* The number of agents configured for a profile.
AgentsFor(profile) ==
    CASE profile = "PERFORMANCE" -> 9
      [] profile = "BALANCED" -> 5
      [] profile = "ECO" -> 2
      [] profile = "CRITICAL" -> 1

\* C28: after every heartbeat in which the profile changed and
\* _adapt_to_profile() ran, the number of agents held is at most the number
\* of active agents of the new current profile.
C28_AgentsWithinProfile ==
    \A i \in DOMAIN lastStep :
        (lastStep[i].op = "adapt" /\ ~lastStep[i].raised)
            => Len(portable_agents) <= AgentsFor(current_profile)

\* C28 for the transitions into CRITICAL alone.
C28_AgentsWithinCritical ==
    \A i \in DOMAIN lastStep :
        (lastStep[i].op = "adapt" /\ ~lastStep[i].raised /\ current_profile = "CRITICAL")
            => Len(portable_agents) <= AgentsFor(current_profile)

\* The tasks of an agent that are less than 90 days old.
TasksOfLast90(agent_name) ==
    {i \in DOMAIN tasks : tasks[i].agent_name = agent_name /\ today - tasks[i].day < 90}

\* How many of these tasks have the given type.
TypeCount(agent_name, task_type) ==
    Cardinality({i \in TasksOfLast90(agent_name) : tasks[i].task_type = task_type})

\* C30: get_context() never returns the no-context text: for every store,
\* agent and query the suggestions are not empty (the notice of a first
\* consultation when the agent has no task in the last 90 days, otherwise
\* a most frequent task type with its count), so the text returned has the
\* SUGGESTIONS section and the enriched query of the router does not
\* contain the no-context text.
C30_ContextNeverEmpty ==
    \A i \in DOMAIN lastRecall :
        LET c == lastRecall[i]
            n == Len(c.parts)
            at == CHOOSE k \in 1..n : c.parts[k] = "\n=== SUGGESTIONS ==="
        IN  c.op = "get_context" =>
              /\ c.context # "[Pas de contexte anterieur trouve]"
              /\ \E k \in 1..n : c.parts[k] = "\n=== SUGGESTIONS ==="
              /\ at < n
              /\ Contains(c.context, "=== SUGGESTIONS ===")
              /\ ~Contains(c.enriched, "[Pas de contexte anterieur trouve]")
              /\ IF TasksOfLast90(c.agent_name) = {}
                 THEN c.parts[at + 1] = "- Premiere consultation avec cet agent"
                 ELSE \E t \in {tasks[j].task_type : j \in TasksOfLast90(c.agent_name)} :
                         /\ \A u \in ContextTypes :
                               TypeCount(c.agent_name, u) <= TypeCount(c.agent_name, t)
                         /\ c.parts[at + 1] =
                               "- Tu as deja fait " \o Str(TypeCount(c.agent_name, t))
                               \o " taches de type '" \o t \o "' avec cet agent"

\* The context of an agent without a task and without a consultation: the
\* suggestions alone.
C30_Witness ==
    /\ lastRecall # <<>>
    /\ lastRecall[1].op = "get_context"
    /\ lastRecall[1].agent_name = "DataEngineer"
    /\ lastRecall[1].context = "\n=== SUGGESTIONS ===\n- Premiere consultation avec cet agent"

\* The context of an agent whose tasks are all 90 days old or more: the
\* notice of a first consultation again.
C30_OldTasksWitness ==
    /\ lastRecall # <<>>
    /\ lastRecall[1].op = "get_context"
    /\ lastRecall[1].agent_name = "BackendExpert"
    /\ Len(tasks) = 2
    /\ \A i \in DOMAIN tasks : today - tasks[i].day >= 90
    /\ lastRecall[1].parts = <<"\n=== SUGGESTIONS ===", "- Premiere consultation avec cet agent">>

\* The context of an agent with two audits and one optimization.
C30_CountWitness ==
    /\ lastRecall # <<>>
    /\ lastRecall[1].op = "get_context"
    /\ Len(lastRecall[1].tasks90) = 3
    /\ \E k \in DOMAIN lastRecall[1].parts :
          lastRecall[1].parts[k] = "- Tu as deja fait 2 taches de type 'audit' avec cet agent"

====
